---- MODULE Spec2Model ----
(***************************************************************************)
(* A model of gonetx/ipset: the command descriptor (cmd), the modifier set *)
(* (options), the argument compiler (buildArgs / appendArgs), the reuse    *)
(* pool of modifier sets and the execution wrappers (cmd.exec, set.Test),   *)
(* the operations of a set handle (Flush, Destroy, List, Save, ListToFile,  *)
(* SaveToFile, Restore), the listing parser (parseInfo) and the two reuse  *)
(* pools under concurrent calls.                                           *)
(* Tokens, names, entries and tool output are TLA+ strings, so prefix and  *)
(* substring tests and message formatting are computed on the characters.  *)
(***************************************************************************)
EXTENDS Integers, Sequences, FiniteSets, TLC

VARIABLES
    pc,           \* position of the caller: "idle" or "done"
    c,            \* the command descriptor of the current call (cmd struct)
    opts,         \* the option list the caller passed (opts ...Option)
    args,         \* the token sequence returned by buildArgs
    optionsPool,  \* the modifier sets currently held by optionsPool
    first,        \* SpecPool: the first compile call and its result
    tool,         \* SpecExec: exit status and combined output of the tool
    ret,          \* SpecExec: what the operation returned to its caller
    set,          \* the set handle the call is made on (set struct)
    cmdPool,      \* the descriptors currently held by cmdPool
    info,         \* what parseInfo / set.List returned
    reader,       \* Restore: the input and how much of it has been read
    buf,          \* Restore: the buffer (b) of lines not yet handed to the tool
    maxRestoreSize, \* Restore: the maximum chunk size (a package variable)
    invocations,  \* the runs of the tool the current call has started
    calls,        \* SpecShare: the position and the borrowings of each call
    pools,        \* SpecShare: the instances each reuse pool holds
    backing,      \* the array behind c.out of the descriptor cmdPool holds
    saved,        \* the reader a caller holds from a Save
    files,        \* the content of the files ListToFile / SaveToFile write
    filename      \* the file name the current call was given

setVars == <<set, cmdPool, info>>
restoreVars == <<reader, buf, maxRestoreSize, invocations>>
shareVars == <<calls, pools>>
saveVars == <<backing, saved, files, filename>>

vars ==
    <<pc, c, opts, args, optionsPool, first, tool, ret, setVars, restoreVars,
      shareVars, saveVars>>

(***************************************************************************)
(* Bounds of the model.                                                    *)
(***************************************************************************)
\* longest option list of a compile call in Spec (besides the full lists)
MaxOpts == 1
\* longest option list of a compile call in SpecOrder
MaxSeq == 2

(***************************************************************************)
(* Commands and option tokens (cmd.go constants).                          *)
(***************************************************************************)
_create == "create"
_add == "add"
_del == "del"
_test == "test"
_destroy == "destroy"
_list == "list"
_save == "save"
_restore == "restore"
_flush == "flush"
_rename == "rename"
_swap == "swap"

_exist == "-exist"
_resolve == "-resolve"
_timeout == "timeout"
_counters == "counters"
_packets == "packets"
_bytes == "bytes"
_comment == "comment"
_skbinfo == "skbinfo"
_skbmark == "skbmark"
_skbprio == "skbprio"
_skbqueue == "skbqueue"
_nomatch == "nomatch"
_forceadd == "forceadd"
_family == "family"
_hashsize == "hashsize"
_maxelem == "maxelem"
_netmask == "netmask"
_markmask == "markmask"
_size == "size"
_range == "range"

\* the 11 verbs, in the order of the tests' table
testActions ==
    <<_create, _add, _del, _test, _destroy, _list, _save, _restore,
      _flush, _rename, _swap>>

(***************************************************************************)
(* Set types.                                                              *)
(***************************************************************************)
BitmapIp == "bitmap:ip"
BitmapIpMac == "bitmap:ip,mac"
BitmapPort == "bitmap:port"
HashIp == "hash:ip"
HashMac == "hash:mac"
HashIpMac == "hash:ip,mac"
HashNet == "hash:net"
HashNetNet == "hash:net,net"
HashIpPort == "hash:ip,port"
HashNetPort == "hash:net,port"
HashIpPortIp == "hash:ip,port,ip"
HashIpPortNet == "hash:ip,port,net"
HashIpMark == "hash:ip,mark"
HashNetPortNet == "hash:net,port,net"
HashNetIface == "hash:net,iface"
ListSet == "list:set"

testSetTypes ==
    <<BitmapIp, BitmapIpMac, BitmapPort, HashIp, HashMac, HashIpMac, HashNet,
      HashNetNet, HashIpPort, HashNetPort, HashIpPortIp, HashIpPortNet,
      HashIpMark, HashNetPortNet, HashNetIface, ListSet>>

Range(s) == {s[i] : i \in 1..Len(s)}

Actions == Range(testActions)
SetTypes == Range(testSetTypes)

Inet == "inet"
Inet6 == "inet6"

\* time.Second, in nanoseconds (time.Duration counts nanoseconds)
Second == 1000000000

(***************************************************************************)
(* String helpers (strings.HasPrefix, bytes.Contains, strconv.FormatUint). *)
(***************************************************************************)
HasPrefix(s, prefix) ==
    /\ Len(s) >= Len(prefix)
    /\ SubSeq(s, 1, Len(prefix)) = prefix

Contains(s, sub) ==
    \E i \in 0..(Len(s) - Len(sub)) : SubSeq(s, i + 1, i + Len(sub)) = sub

Digits == <<"0", "1", "2", "3", "4", "5", "6", "7", "8", "9">>

RECURSIVE i2str(_)
i2str(i) ==
    IF i < 10 THEN Digits[i + 1]
    ELSE i2str(i \div 10) \o Digits[(i % 10) + 1]

\* uint64(d.Seconds()) for a positive duration d: the float d/1e9 truncated
Seconds(d) == d \div Second

(***************************************************************************)
(* The modifier set (options struct) and the Option constructors.  An      *)
(* Option is the closure returned by a constructor: it assigns one field.  *)
(***************************************************************************)
NewOptions ==
    [ exist |-> FALSE, resolve |-> FALSE, timeout |-> 0, counters |-> FALSE,
      countersPackets |-> 0, countersBytes |-> 0, comment |-> FALSE,
      commentContent |-> "", skbinfo |-> FALSE, skbmark |-> "",
      skbprio |-> "", skbqueue |-> 0, hashSize |-> 0, maxElem |-> 0,
      family |-> "", nomatch |-> FALSE, forceadd |-> FALSE, ipRange |-> "",
      portRange |-> "", netmask |-> 0, markmask |-> 0, listSize |-> 0 ]

Timeout(t) == [f |-> "timeout", v |-> t]
Exist(b) == [f |-> "exist", v |-> b]
Resolve(b) == [f |-> "resolve", v |-> b]
Comment(b) == [f |-> "comment", v |-> b]
CommentContent(s) == [f |-> "commentContent", v |-> s]
Counters(b) == [f |-> "counters", v |-> b]
Packets(n) == [f |-> "countersPackets", v |-> n]
Bytes(n) == [f |-> "countersBytes", v |-> n]
Skbinfo(b) == [f |-> "skbinfo", v |-> b]
Skbmark(s) == [f |-> "skbmark", v |-> s]
Skbprio(s) == [f |-> "skbprio", v |-> s]
Skbqueue(n) == [f |-> "skbqueue", v |-> n]
HashSize(n) == [f |-> "hashSize", v |-> n]
MaxElem(n) == [f |-> "maxElem", v |-> n]
Family(s) == [f |-> "family", v |-> s]
Nomatch(b) == [f |-> "nomatch", v |-> b]
Forceadd(b) == [f |-> "forceadd", v |-> b]
Netmask(n) == [f |-> "netmask", v |-> n]
Markmask(n) == [f |-> "markmask", v |-> n]
ListSize(n) == [f |-> "listSize", v |-> n]
IpRange(s) == [f |-> "ipRange", v |-> s]
PortRange(s) == [f |-> "portRange", v |-> s]

\* opt(o): the closure assigns its field and nothing else
call(opt, o) == [o EXCEPT ![opt.f] = opt.v]

\* a buggy variant: a field once set is never overwritten
RECURSIVE applyFirstWins(_, _)
applyFirstWins(o, os) ==
    IF os = <<>> THEN o
    ELSE applyFirstWins(
             IF o[Head(os).f] = NewOptions[Head(os).f] THEN call(Head(os), o)
             ELSE o,
             Tail(os))

RECURSIVE apply(_, _)
apply(o, os) ==
    IF os = <<>> THEN o ELSE apply(call(Head(os), o), Tail(os))

\* a buggy variant: the timeout is left as it was
releaseOptionsKeepsTimeout(o) == [NewOptions EXCEPT !.timeout = o.timeout]

\* a buggy variant: the string fields are left as they were
releaseOptionsKeepsStrings(o) ==
    [NewOptions EXCEPT !.commentContent = o.commentContent,
                       !.skbmark = o.skbmark, !.ipRange = o.ipRange]

releaseOptions(o) ==
    [o EXCEPT !.timeout = 0, !.exist = FALSE, !.resolve = FALSE,
              !.counters = FALSE, !.countersPackets = 0,
              !.countersBytes = 0, !.comment = FALSE,
              !.commentContent = "", !.skbinfo = FALSE, !.skbmark = "",
              !.skbprio = "", !.skbqueue = 0, !.hashSize = 0,
              !.maxElem = 0, !.family = "", !.nomatch = FALSE,
              !.forceadd = FALSE, !.netmask = 0, !.markmask = 0,
              !.listSize = 0, !.ipRange = "", !.portRange = ""]

\* optionsPool.Get(): an instance the pool holds, or a fresh one from New
acquireOptions(pool) == pool \cup {NewOptions}

(***************************************************************************)
(* The command descriptor and its applicability predicates.                *)
(***************************************************************************)
\* &cmd{}: the zero value
NewCmd == [action |-> "", name |-> "", entry |-> "", setType |-> "", out |-> ""]

\* a buggy variant: flush is taken for a three-argument action
isTwoArgsNoFlush(d) ==
    d.action = _list \/ d.action = _save \/ d.action = _destroy

isTwoArgs(d) ==
    d.action = _list \/ d.action = _save \/
    d.action = _destroy \/ d.action = _flush

\* a buggy variant: del is forgotten
needExistNoDel(d) == d.action = _create \/ d.action = _add

needExist(d) == d.action = _create \/ d.action = _add \/ d.action = _del

needTimeout(d) == d.action = _create \/ d.action = _add

needResolve(d) == d.action = _list \/ d.action = _save

needCounters(d) == d.action = _create

onlyAdd(d) == d.action = _add

onlyCreate(d) == d.action = _create

\* a buggy variant: every hash type that stores a net, by prefix
needNomatchAnyHashNet(d) ==
    d.action = _add /\ HasPrefix(d.setType, "hash:net")

needNomatch(d) ==
    d.action = _add /\
    (d.setType = HashNet \/ d.setType = HashNetNet \/
     d.setType = HashNetPort \/ d.setType = HashIpPortNet \/
     d.setType = HashNetPortNet \/ d.setType = HashNetIface)

\* a buggy variant: hash:mac is not excluded
needFamilyWithMac(d) == d.action = _create /\ HasPrefix(d.setType, "hash")

needFamily(d) ==
    d.action = _create /\ d.setType # HashMac /\ HasPrefix(d.setType, "hash")

needHash(d) == d.action = _create /\ HasPrefix(d.setType, "hash")

needNetmask(d) ==
    d.action = _create /\ (d.setType = BitmapIp \/ d.setType = HashIp)

needMarkmask(d) == d.action = _create /\ d.setType = HashIpMark

needListSize(d) == d.action = _create /\ d.setType = ListSet

needIpRange(d) ==
    d.action = _create /\ (d.setType = BitmapIp \/ d.setType = BitmapIpMac)

needPortRange(d) == d.action = _create /\ d.setType = BitmapPort

(***************************************************************************)
(* appendArgs: one step per `if` of the function body, in source order.    *)
(* Each step takes the tokens so far and returns them, extended or not.    *)
(***************************************************************************)
appendTimeout(d, o, a) ==
    IF o.timeout > 0 /\ needTimeout(d)
    THEN a \o <<_timeout, i2str(Seconds(o.timeout))>> ELSE a

\* a buggy variant: the flag's value is not looked at
appendExistUnguarded(d, o, a) ==
    IF needExist(d) THEN a \o <<_exist>> ELSE a

appendExist(d, o, a) ==
    IF o.exist /\ needExist(d) THEN a \o <<_exist>> ELSE a

appendResolve(d, o, a) ==
    IF o.resolve /\ needResolve(d) THEN a \o <<_resolve>> ELSE a

appendCounters(d, o, a) ==
    IF o.counters /\ needCounters(d) THEN a \o <<_counters>> ELSE a

appendPackets(d, o, a) ==
    IF o.countersPackets > 0 /\ onlyAdd(d)
    THEN a \o <<_packets, i2str(o.countersPackets)>> ELSE a

appendBytes(d, o, a) ==
    IF o.countersBytes > 0 /\ onlyAdd(d)
    THEN a \o <<_bytes, i2str(o.countersBytes)>> ELSE a

appendComment(d, o, a) ==
    IF o.comment /\ onlyCreate(d) THEN a \o <<_comment>> ELSE a

appendCommentContent(d, o, a) ==
    IF o.commentContent # "" /\ onlyAdd(d)
    THEN a \o <<_comment, o.commentContent>> ELSE a

appendSkbinfo(d, o, a) ==
    IF o.skbinfo /\ onlyCreate(d) THEN a \o <<_skbinfo>> ELSE a

appendSkbmark(d, o, a) ==
    IF o.skbmark # "" /\ onlyAdd(d) THEN a \o <<_skbmark, o.skbmark>> ELSE a

appendSkbprio(d, o, a) ==
    IF o.skbprio # "" /\ onlyAdd(d) THEN a \o <<_skbprio, o.skbprio>> ELSE a

appendSkbqueue(d, o, a) ==
    IF o.skbqueue # 0 /\ onlyAdd(d)
    THEN a \o <<_skbqueue, i2str(o.skbqueue)>> ELSE a

appendNomatch(d, o, a) ==
    IF o.nomatch /\ needNomatch(d) THEN a \o <<_nomatch>> ELSE a

appendForceadd(d, o, a) ==
    IF o.forceadd /\ onlyCreate(d) THEN a \o <<_forceadd>> ELSE a

appendFamily(d, o, a) ==
    IF o.family # "" /\ needFamily(d) THEN a \o <<_family, o.family>> ELSE a

appendHashSize(d, o, a) ==
    IF o.hashSize # 0 /\ needHash(d)
    THEN a \o <<_hashsize, i2str(o.hashSize)>> ELSE a

appendMaxElem(d, o, a) ==
    IF o.maxElem # 0 /\ needHash(d)
    THEN a \o <<_maxelem, i2str(o.maxElem)>> ELSE a

appendNetmask(d, o, a) ==
    IF o.netmask # 0 /\ needNetmask(d)
    THEN a \o <<_netmask, i2str(o.netmask)>> ELSE a

appendMarkmask(d, o, a) ==
    IF o.markmask # 0 /\ needMarkmask(d)
    THEN a \o <<_markmask, i2str(o.markmask)>> ELSE a

appendListSize(d, o, a) ==
    IF o.listSize # 0 /\ needListSize(d)
    THEN a \o <<_size, i2str(o.listSize)>> ELSE a

appendIpRange(d, o, a) ==
    IF o.ipRange # "" /\ needIpRange(d) THEN a \o <<_range, o.ipRange>> ELSE a

appendPortRange(d, o, a) ==
    IF o.portRange # "" /\ needPortRange(d)
    THEN a \o <<_range, o.portRange>> ELSE a

\* a buggy variant: -exist is emitted before timeout
emitExistFirst(d, o, a) ==
    LET a1 == appendExist(d, o, a)
        a2 == appendTimeout(d, o, a1)
        a3 == appendResolve(d, o, a2)
        a4 == appendCounters(d, o, a3)
        a5 == appendPackets(d, o, a4)
        a6 == appendBytes(d, o, a5)
        a7 == appendComment(d, o, a6)
        a8 == appendCommentContent(d, o, a7)
        a9 == appendSkbinfo(d, o, a8)
        a10 == appendSkbmark(d, o, a9)
        a11 == appendSkbprio(d, o, a10)
        a12 == appendSkbqueue(d, o, a11)
        a13 == appendNomatch(d, o, a12)
        a14 == appendForceadd(d, o, a13)
        a15 == appendFamily(d, o, a14)
        a16 == appendHashSize(d, o, a15)
        a17 == appendMaxElem(d, o, a16)
        a18 == appendNetmask(d, o, a17)
        a19 == appendMarkmask(d, o, a18)
        a20 == appendListSize(d, o, a19)
        a21 == appendIpRange(d, o, a20)
    IN  appendPortRange(d, o, a21)

\* the body of appendArgs after apply: the 22 steps on the modifier set o
emit(d, o, a) ==
    LET a1 == appendTimeout(d, o, a)
        a2 == appendExist(d, o, a1)
        a3 == appendResolve(d, o, a2)
        a4 == appendCounters(d, o, a3)
        a5 == appendPackets(d, o, a4)
        a6 == appendBytes(d, o, a5)
        a7 == appendComment(d, o, a6)
        a8 == appendCommentContent(d, o, a7)
        a9 == appendSkbinfo(d, o, a8)
        a10 == appendSkbmark(d, o, a9)
        a11 == appendSkbprio(d, o, a10)
        a12 == appendSkbqueue(d, o, a11)
        a13 == appendNomatch(d, o, a12)
        a14 == appendForceadd(d, o, a13)
        a15 == appendFamily(d, o, a14)
        a16 == appendHashSize(d, o, a15)
        a17 == appendMaxElem(d, o, a16)
        a18 == appendNetmask(d, o, a17)
        a19 == appendMarkmask(d, o, a18)
        a20 == appendListSize(d, o, a19)
        a21 == appendIpRange(d, o, a20)
    IN  appendPortRange(d, o, a21)

\* appendArgs on the instance o0 that acquireOptions returned
appendArgs(d, a, o0, os) == emit(d, apply(o0, os), a)

\* the positional tokens buildArgs starts with
positional(d) ==
    IF ~isTwoArgs(d) THEN <<d.action, d.name, d.entry>>
    ELSE <<d.action, d.name>>

buildArgs(d, o0, os) == appendArgs(d, positional(d), o0, os)

(***************************************************************************)
(* The inputs of the compile calls.                                        *)
(***************************************************************************)
\* every modifier once, with a value that is not its unset sentinel
AllSet ==
    << Timeout(Second), Exist(TRUE), Resolve(TRUE), Counters(TRUE),
       Packets(42), Bytes(1024), Comment(TRUE),
       CommentContent("allow access"), Skbinfo(TRUE),
       Skbmark("0x1111/0xff00ffff"), Skbprio("1:10"), Skbqueue(10),
       Nomatch(TRUE), Forceadd(TRUE), Family(Inet6), HashSize(1536),
       MaxElem(2048), Netmask(24), Markmask(255), ListSize(8),
       IpRange("192.168.0.0/16"), PortRange("1000-2000") >>

\* every modifier once, with its unset sentinel
AllUnset ==
    << Timeout(0), Exist(FALSE), Resolve(FALSE), Counters(FALSE),
       Packets(0), Bytes(0), Comment(FALSE), CommentContent(""),
       Skbinfo(FALSE), Skbmark(""), Skbprio(""), Skbqueue(0),
       Nomatch(FALSE), Forceadd(FALSE), Family(""), HashSize(0),
       MaxElem(0), Netmask(0), Markmask(0), ListSize(0), IpRange(""),
       PortRange("") >>

Reverse(s) == [i \in 1..Len(s) |-> s[Len(s) + 1 - i]]

\* durations that are neither unset nor a whole positive number of seconds
OddTimeouts == {Timeout(0 - Second), Timeout(Second \div 2)}

Options == Range(AllSet) \cup Range(AllUnset) \cup OddTimeouts

\* SpecOrder: options of every kind of value, three of them with a second
\* value and with the unset sentinel, so that a modifier can be overwritten
OrderOptions ==
    { Timeout(Second), Timeout(2 * Second), Timeout(0),
      Timeout(0 - Second), Exist(TRUE),
      Exist(FALSE), Resolve(TRUE), Counters(TRUE), Packets(42),
      CommentContent("allow access"), CommentContent(""), Nomatch(TRUE),
      Family(Inet6), HashSize(1536), HashSize(0),
      IpRange("192.168.0.0/16"), PortRange("1000-2000") }

RECURSIVE SeqsUpTo(_, _)
SeqsUpTo(S, n) ==
    IF n = 0 THEN {<<>>}
    ELSE LET P == SeqsUpTo(S, n - 1)
         IN  P \cup {Append(q, x) : q \in {r \in P : Len(r) = n - 1}, x \in S}

\* Spec: short lists of any option (the table-driven tests apply one), and
\* the three full lists
OptLists ==
    SeqsUpTo(Options, MaxOpts) \cup {AllSet, Reverse(AllSet), AllUnset}

\* SpecOrder: lists in which a modifier may occur more than once
OrderLists ==
    SeqsUpTo(OrderOptions, MaxSeq) \cup {AllSet, Reverse(AllSet)}

\* SpecOrder: descriptors under which every category is emitted somewhere
OrderCmds ==
    { <<_create, BitmapIp>>, <<_create, BitmapPort>>, <<_create, HashIp>>,
      <<_create, HashIpMark>>, <<_create, ListSet>>, <<_add, HashNet>>,
      <<_del, HashIp>>, <<_list, HashIp>> }

Names == {"foo"}
Entries == {"1.1.1.1"}

\* &cmd{action: action, name: name, setType: setType, entry: entry}
Cmd(action, name, setType, entry) ==
    [action |-> action, name |-> name, entry |-> entry,
     setType |-> setType, out |-> ""]

(***************************************************************************)
(* Initial state: no call in progress, empty pool.                         *)
(***************************************************************************)
NoCall ==
    [c |-> NewCmd, opts |-> <<>>, args |-> <<>>, set |-> FALSE,
     other |-> FALSE]
NoTool == [status |-> 0, out |-> ""]
NoRet == [op |-> "", ok |-> FALSE, err |-> FALSE, msg |-> ""]
NoSet == [name |-> "", setType |-> ""]
NoInfo ==
    [Name |-> "", SetType |-> "", Revision |-> 0, Header |-> "",
     SizeInMemory |-> 0, References |-> 0, Entries |-> <<>>]
\* parseInfo has not been called
NoResult == [kind |-> "none", v |-> NoInfo, msg |-> ""]
\* a reader without input
NoReader == [data |-> "", pos |-> 0]
\* 1 << 16
DefaultMaxRestoreSize == 65536
Procs == {1, 2}
\* a call that has not started: it holds no descriptor and no modifier set
NoBorrow == [pc |-> "idle", cmd |-> 0, opt |-> 0]
\* both pools empty, no instance made yet (instances are numbered from 1)
\* the names of the files of the model
FileNames == {"list.test"}
NoPools == [cmd |-> {}, opt |-> {}, cmds |-> 0, options |-> 0]
\* a nil slice has no array: no bytes, capacity 0
NoArray == [bytes |-> "", cap |-> 0]
\* the caller holds no reader (out: the bytes the reader was made over)
NoSaved == [arr |-> "none", n |-> 0, bytes |-> "", out |-> "", read |-> FALSE]
\* the array of the pooled descriptor as the state keeps it: its bytes can
\* be read through a reader over it only (the slice of the descriptor has
\* length 0 after putCmd), so without such a reader they are left out
reachable(a, sv) == IF sv.arr = "shared" THEN a ELSE [a EXCEPT !.bytes = ""]

\* a file that does not exist
NoFile == [exists |-> FALSE, content |-> ""]

Init ==
    /\ pc = "idle"
    /\ c = NewCmd
    /\ opts = <<>>
    /\ args = <<>>
    /\ optionsPool = {}
    /\ first = NoCall
    /\ tool = NoTool
    /\ ret = NoRet
    /\ set = NoSet
    /\ cmdPool = {}
    /\ info = NoResult
    /\ reader = NoReader
    /\ buf = ""
    /\ maxRestoreSize = DefaultMaxRestoreSize
    /\ invocations = <<>>
    /\ calls = [p \in Procs |-> NoBorrow]
    /\ pools = NoPools
    /\ backing = NoArray
    /\ saved = NoSaved
    /\ files = [f \in FileNames |-> NoFile]
    /\ filename = ""

(***************************************************************************)
(* A compile call: c.buildArgs(opts...) on a descriptor built by the       *)
(* caller.  The modifier set comes from the pool (or is fresh), the        *)
(* options are applied to it, the tokens are emitted and the instance is   *)
(* reset and put back.                                                     *)
(***************************************************************************)
CompileCall(action, name, setType, entry, os) ==
    /\ pc = "idle"
    /\ \E o0 \in acquireOptions(optionsPool) :
         LET d == Cmd(action, name, setType, entry)
         IN  /\ c' = d
             /\ opts' = os
             /\ args' = buildArgs(d, o0, os)
             /\ optionsPool' =
                    (optionsPool \ {o0}) \cup {releaseOptions(apply(o0, os))}
    /\ pc' = "done"
    /\ UNCHANGED <<tool, ret, setVars, restoreVars, shareVars, saveVars>>

Compile(action, name, setType, entry, os) ==
    /\ CompileCall(action, name, setType, entry, os)
    /\ UNCHANGED first

\* the caller drops the descriptor, the tokens and the result
Return ==
    /\ pc = "done"
    /\ pc' = "idle"
    /\ c' = NewCmd
    /\ opts' = <<>>
    /\ args' = <<>>
    /\ tool' = NoTool
    /\ ret' = NoRet
    /\ set' = NoSet
    /\ info' = NoResult
    /\ reader' = NoReader
    /\ buf' = ""
    /\ invocations' = <<>>
    /\ filename' = ""
    /\ saved' = IF saved.read THEN NoSaved ELSE saved
    /\ backing' = reachable(backing, saved')
    /\ UNCHANGED <<optionsPool, first, cmdPool, maxRestoreSize, shareVars,
                   files>>

CompileAny ==
    /\ pc = "idle"
    /\ \E action \in Actions, setType \in SetTypes, name \in Names,
          entry \in Entries, os \in OptLists :
           Compile(action, name, setType, entry, os)

Next == CompileAny \/ Return

Spec == Init /\ [][Next]_vars

CompileOrder ==
    /\ pc = "idle"
    /\ \E d \in OrderCmds, name \in Names, entry \in Entries, os \in OrderLists :
           Compile(d[1], name, d[2], entry, os)

NextOrder == CompileOrder \/ Return

SpecOrder == Init /\ [][NextOrder]_vars

(***************************************************************************)
(* SpecPool: compile calls one after another on the shared pool.  One      *)
(* finished call may be remembered (a history variable) so that a later    *)
(* call with the same descriptor and options can be compared with it.      *)
(***************************************************************************)
PoolCmds == {<<_create, HashIp>>, <<_add, HashNet>>, <<_list, HashIp>>}

\* no option, one set option, or every option
PoolLists == {<<>>, AllSet} \cup {<<x>> : x \in Range(AllSet)}

\* first.other notes that a different call ran after the remembered one
CompilePool ==
    /\ pc = "idle"
    /\ \E d \in PoolCmds, name \in Names, entry \in Entries, os \in PoolLists :
           /\ CompileCall(d[1], name, d[2], entry, os)
           /\ first' =
                 IF first.set /\
                    (Cmd(d[1], name, d[2], entry) # first.c \/ os # first.opts)
                 THEN [first EXCEPT !.other = TRUE]
                 ELSE first

Remember ==
    /\ pc = "done"
    /\ ~first.set
    /\ first' = [c |-> c, opts |-> opts, args |-> args, set |-> TRUE,
                 other |-> FALSE]
    /\ UNCHANGED <<pc, c, opts, args, optionsPool, tool, ret, setVars,
                   restoreVars, shareVars, saveVars>>

NextPool == CompilePool \/ Remember \/ Return

SpecPool == Init /\ [][NextPool]_vars

(***************************************************************************)
(* SpecExec: the execution wrappers.  The external tool is any exit        *)
(* status with any combined output from a small set of texts.              *)
(***************************************************************************)
notFlag == "NOT"

ToolOutputs ==
    { "", "fake error", "1.1.1.2 is NOT in set foo.",
      "The set with the given name does not exist",
      "Syntax error: cannot parse NOTHING: resolving to IPv4 address failed" }

ToolStatuses == {0, 1}

ExecNames == {"foo"}
ExecEntries == {"1.1.1.1", "NOTHING"}
ExecTypes == {HashIp, HashNet}
ExecLists == {<<>>, <<Exist(TRUE)>>, <<Resolve(TRUE)>>}

\* a buggy variant: the marker is looked for before the exit status
testReturnMarkerFirst(name, entry, status, out) ==
    IF Contains(out, notFlag)
    THEN [op |-> "Test", ok |-> FALSE, err |-> FALSE, msg |-> ""]
    ELSE IF status # 0
    THEN [op |-> "Test", ok |-> FALSE, err |-> TRUE,
          msg |-> "ipset: can't test " \o name \o " " \o entry \o ": " \o out]
    ELSE [op |-> "Test", ok |-> TRUE, err |-> FALSE, msg |-> ""]

\* what set.Test returns for the tool's exit status and output
testReturn(name, entry, status, out) ==
    IF status # 0
    THEN IF Contains(out, notFlag)
         THEN [op |-> "Test", ok |-> FALSE, err |-> FALSE, msg |-> ""]
         ELSE [op |-> "Test", ok |-> FALSE, err |-> TRUE,
               msg |-> "ipset: can't test " \o name \o " " \o entry \o
                       ": " \o out]
    ELSE [op |-> "Test", ok |-> TRUE, err |-> FALSE, msg |-> ""]

\* set.Test(entry) on the set s.name: no descriptor, no options
Test(name, entry, status, out) ==
    /\ pc = "idle"
    /\ args' = <<_test, name, entry>>
    /\ tool' = [status |-> status, out |-> out]
    /\ ret' = testReturn(name, entry, status, out)
    /\ pc' = "done"
    /\ UNCHANGED <<c, opts, optionsPool, first, setVars, restoreVars,
                   shareVars, saveVars>>

\* a buggy variant: every failure is reported with the entry
execErrorAlwaysEntry(d, out) ==
    "ipset: can't " \o d.action \o " " \o d.name \o " " \o d.entry \o
    ": " \o out

\* the message of the error cmd.exec returns on failure
execError(d, out) ==
    IF isTwoArgs(d)
    THEN "ipset: can't " \o d.action \o " " \o d.name \o ": " \o out
    ELSE "ipset: can't " \o d.action \o " " \o d.name \o " " \o d.entry \o
         ": " \o out

\* what cmd.exec returns (ok is not used: exec returns an error only)
execReturn(d, status, out) ==
    IF status # 0
    THEN [op |-> "exec", ok |-> FALSE, err |-> TRUE, msg |-> execError(d, out)]
    ELSE [op |-> "exec", ok |-> FALSE, err |-> FALSE, msg |-> ""]

\* the descriptor after cmd.exec: list and save keep the output
execOut(d, status, out) ==
    IF status = 0 /\ needResolve(d) THEN [d EXCEPT !.out = d.out \o out]
    ELSE d

\* c.exec(opts...) on a descriptor built by the caller
Exec(action, name, setType, entry, os, status, out) ==
    /\ pc = "idle"
    /\ \E o0 \in acquireOptions(optionsPool) :
         LET d == Cmd(action, name, setType, entry)
         IN  /\ args' = buildArgs(d, o0, os)
             /\ optionsPool' =
                    (optionsPool \ {o0}) \cup {releaseOptions(apply(o0, os))}
             /\ tool' = [status |-> status, out |-> out]
             /\ ret' = execReturn(d, status, out)
             /\ c' = execOut(d, status, out)
             /\ opts' = os
    /\ pc' = "done"
    /\ UNCHANGED <<first, setVars, restoreVars, shareVars, saveVars>>

TestAny ==
    /\ pc = "idle"
    /\ \E name \in ExecNames, entry \in ExecEntries, status \in ToolStatuses,
          out \in ToolOutputs :
           Test(name, entry, status, out)

ExecAny ==
    /\ pc = "idle"
    /\ \E action \in Actions, name \in ExecNames, setType \in ExecTypes,
          entry \in ExecEntries, os \in ExecLists, status \in ToolStatuses,
          out \in ToolOutputs :
           Exec(action, name, setType, entry, os, status, out)

NextExec == TestAny \/ ExecAny \/ Return

SpecExec == Init /\ [][NextExec]_vars

(***************************************************************************)
(* SpecNamed: flushing and destroying sets by name.  set.Flush and         *)
(* set.Destroy hand the name of the handle to flush and destroy; Flush and *)
(* Destroy take a list of names, or none for every set.  Each run of the   *)
(* tool is recorded in `invocations`.                                      *)
(***************************************************************************)
HandleNames == {"foo", "bar"}
HandleTypes == {HashIp, ListSet}
NameLists == {<<>>, <<"a">>, <<"a", "b">>, <<"b", "a">>, <<"foo", "a", "b">>}

Handle(name, setType) == [name |-> name, setType |-> setType]

\* one run of the tool: its arguments, what was written to its standard
\* input, its exit status and its combined output
Invocation(a, stdin, status, out) ==
    [args |-> a, stdin |-> stdin, status |-> status, out |-> out]

NoError(op) == [op |-> op, ok |-> FALSE, err |-> FALSE, msg |-> ""]
Error(op, msg) == [op |-> op, ok |-> FALSE, err |-> TRUE, msg |-> msg]

\* flush(name): one run of `flush name`
flush(name, status, out) ==
    IF status # 0
    THEN Error("Flush", "ipset: can't flush set " \o name \o ": " \o out)
    ELSE NoError("Flush")

\* destroy(name): one run of `destroy name`
destroy(name, status, out) ==
    IF status # 0
    THEN Error("Destroy", "ipset: can't " \o _destroy \o " set " \o name \o
                          ": " \o out)
    ELSE NoError("Destroy")

\* Flush() without a name
flushAll(status, out) ==
    IF status # 0
    THEN Error("Flush", "ipset: can't flush all set: " \o out)
    ELSE NoError("Flush")

\* Destroy() without a name
destroyAll(status, out) ==
    IF status # 0
    THEN Error("Destroy", "ipset: can't destroy all set: " \o out)
    ELSE NoError("Destroy")

\* a buggy variant: the set type is handed on instead of the name
setFlushByType(st, status, out) == flush(st.setType, status, out)

\* set.Flush: return flush(s.name)
setFlush(st, status, out) == flush(st.name, status, out)

\* a buggy variant: the set type is handed on instead of the name
setDestroyByType(st, status, out) == destroy(st.setType, status, out)

\* set.Destroy: return destroy(s.name)
setDestroy(st, status, out) == destroy(st.name, status, out)

\* the names a call on a list of names reaches: all of them, or those up to
\* the first one the tool fails on (failAt = 0: the tool never fails)
Reached(names, failAt) ==
    IF failAt = 0 THEN names ELSE SubSeq(names, 1, failAt)

RunsOf(action, names, failAt, out) ==
    [i \in 1..Len(Reached(names, failAt)) |->
        Invocation(<<action, names[i]>>, <<>>,
                   IF i = failAt THEN 1 ELSE 0, out)]

SetFlush(st, status, out) ==
    /\ set' = st
    /\ invocations' = <<Invocation(<<_flush, st.name>>, <<>>, status, out)>>
    /\ tool' = [status |-> status, out |-> out]
    /\ ret' = setFlush(st, status, out)
    /\ pc' = "done"
    /\ UNCHANGED <<c, opts, args, optionsPool, first, cmdPool, info, reader,
                   buf, maxRestoreSize, shareVars, saveVars>>

SetDestroy(st, status, out) ==
    /\ set' = st
    /\ invocations' = <<Invocation(<<_destroy, st.name>>, <<>>, status, out)>>
    /\ tool' = [status |-> status, out |-> out]
    /\ ret' = setDestroy(st, status, out)
    /\ pc' = "done"
    /\ UNCHANGED <<c, opts, args, optionsPool, first, cmdPool, info, reader,
                   buf, maxRestoreSize, shareVars, saveVars>>

\* Flush(names...): every set without a name, else one run per name, ending
\* at the first failure
Flush(names, failAt, out) ==
    /\ invocations' =
          IF names = <<>>
          THEN <<Invocation(<<_flush>>, <<>>, failAt, out)>>
          ELSE RunsOf(_flush, names, failAt, out)
    /\ tool' = [status |-> IF failAt = 0 THEN 0 ELSE 1, out |-> out]
    /\ ret' = IF names = <<>> THEN flushAll(failAt, out)
              ELSE IF failAt = 0 THEN NoError("Flush")
              ELSE flush(names[failAt], 1, out)
    /\ pc' = "done"
    /\ UNCHANGED <<c, opts, args, optionsPool, first, setVars, reader, buf,
                   maxRestoreSize, shareVars, saveVars>>

\* Destroy(names...)
Destroy(names, failAt, out) ==
    /\ invocations' =
          IF names = <<>>
          THEN <<Invocation(<<_destroy>>, <<>>, failAt, out)>>
          ELSE RunsOf(_destroy, names, failAt, out)
    /\ tool' = [status |-> IF failAt = 0 THEN 0 ELSE 1, out |-> out]
    /\ ret' = IF names = <<>> THEN destroyAll(failAt, out)
              ELSE IF failAt = 0 THEN NoError("Destroy")
              ELSE destroy(names[failAt], 1, out)
    /\ pc' = "done"
    /\ UNCHANGED <<c, opts, args, optionsPool, first, setVars, reader, buf,
                   maxRestoreSize, shareVars, saveVars>>

SetFlushAny ==
    /\ pc = "idle"
    /\ \E name \in HandleNames, setType \in HandleTypes,
          status \in ToolStatuses, out \in ToolOutputs :
           SetFlush(Handle(name, setType), status, out)

SetDestroyAny ==
    /\ pc = "idle"
    /\ \E name \in HandleNames, setType \in HandleTypes,
          status \in ToolStatuses, out \in ToolOutputs :
           SetDestroy(Handle(name, setType), status, out)

FlushAny ==
    /\ pc = "idle"
    /\ \E names \in NameLists, out \in ToolOutputs :
         \E failAt \in 0..(IF names = <<>> THEN 1 ELSE Len(names)) :
           Flush(names, failAt, out)

DestroyAny ==
    /\ pc = "idle"
    /\ \E names \in NameLists, out \in ToolOutputs :
         \E failAt \in 0..(IF names = <<>> THEN 1 ELSE Len(names)) :
           Destroy(names, failAt, out)

NextNamed == SetFlushAny \/ SetDestroyAny \/ FlushAny \/ DestroyAny \/ Return

SpecNamed == Init /\ [][NextNamed]_vars

(***************************************************************************)
(* The listing parser.  A listing is a string; bufio.Scanner cuts it into  *)
(* lines at "\n" (dropping one trailing "\r"), and parseInfo reads the     *)
(* header lines up to the Members marker and the entries after it.         *)
(***************************************************************************)
LF == "\n"
CR == "\r"

\* strings.IndexByte, counted from 1; 0 when the byte does not occur
IndexByte(t, ch) ==
    LET I == {i \in 1..Len(t) : SubSeq(t, i, i) = ch}
    IN  IF I = {} THEN 0 ELSE CHOOSE i \in I : \A j \in I : i <= j

\* strings.LastIndexByte, counted from 1; 0 when the byte does not occur
LastIndexByte(t, ch) ==
    LET I == {i \in 1..Len(t) : SubSeq(t, i, i) = ch}
    IN  IF I = {} THEN 0 ELSE CHOOSE i \in I : \A j \in I : i >= j

\* bufio: dropCR
dropCR(t) ==
    IF Len(t) > 0 /\ SubSeq(t, Len(t), Len(t)) = CR
    THEN SubSeq(t, 1, Len(t) - 1)
    ELSE t

\* the tokens bufio.ScanLines delivers: the text up to each "\n", and what
\* is left at the end when it is not empty
RECURSIVE ScanLines(_)
ScanLines(text) ==
    IF text = "" THEN <<>>
    ELSE LET i == IndexByte(text, LF)
         IN  IF i = 0 THEN <<dropCR(text)>>
             ELSE <<dropCR(SubSeq(text, 1, i - 1))>> \o
                  ScanLines(SubSeq(text, i + 1, Len(text)))

IsDigit(ch) == \E i \in 1..10 : Digits[i] = ch
DigitVal(ch) == (CHOOSE i \in 1..10 : Digits[i] = ch) - 1

RECURSIVE DecimalValue(_)
DecimalValue(str) ==
    IF str = "" THEN 0
    ELSE 10 * DecimalValue(SubSeq(str, 1, Len(str) - 1)) +
         DigitVal(SubSeq(str, Len(str), Len(str)))

\* strconv.Atoi for numbers that fit: an optional sign and decimal digits
Atoi(str) ==
    LET signed == HasPrefix(str, "-") \/ HasPrefix(str, "+")
        body == IF signed THEN SubSeq(str, 2, Len(str)) ELSE str
    IN  IF body = "" \/ \E i \in 1..Len(body) : ~IsDigit(SubSeq(body, i, i))
        THEN [n |-> 0, err |-> TRUE,
              msg |-> "strconv.Atoi: parsing \"" \o str \o
                      "\": invalid syntax"]
        ELSE [n |-> IF HasPrefix(str, "-") THEN 0 - DecimalValue(body)
                    ELSE DecimalValue(body),
              err |-> FALSE, msg |-> ""]

\* getNumber: the number after the last space; 0 and no error without one
getNumber(t) ==
    LET i == LastIndexByte(t, " ")
    IN  IF i # 0 THEN Atoi(SubSeq(t, i + 1, Len(t)))
        ELSE [n |-> 0, err |-> FALSE, msg |-> ""]

\* a buggy variant: the header is cut one character early
headerOfFromColon(t) == SubSeq(t, 8, Len(t))

\* t[8:]
headerOf(t) == SubSeq(t, 9, Len(t))

ParseError(msg) == [kind |-> "error", v |-> NoInfo, msg |-> msg]
\* t[8:] on a line shorter than 8 bytes: slice bounds out of range
ParsePanic == [kind |-> "panic", v |-> NoInfo, msg |-> ""]
Parsed(inf) == [kind |-> "info", v |-> inf, msg |-> ""]

\* the two loops of parseInfo over the scanned lines, from line i on
RECURSIVE scanInfo(_, _, _)
scanInfo(lines, i, inf) ==
    IF i > Len(lines) THEN Parsed(inf)
    ELSE
      LET t == lines[i]
          n == getNumber(t)
      IN  IF HasPrefix(t, "Rev")
          THEN IF n.err THEN ParseError(n.msg)
               ELSE scanInfo(lines, i + 1, [inf EXCEPT !.Revision = n.n])
          ELSE IF HasPrefix(t, "H")
          THEN IF Len(t) < 8 THEN ParsePanic
               ELSE scanInfo(lines, i + 1, [inf EXCEPT !.Header = headerOf(t)])
          ELSE IF HasPrefix(t, "S")
          THEN IF n.err THEN ParseError(n.msg)
               ELSE scanInfo(lines, i + 1, [inf EXCEPT !.SizeInMemory = n.n])
          ELSE IF HasPrefix(t, "Ref")
          THEN IF n.err THEN ParseError(n.msg)
               ELSE scanInfo(lines, i + 1, [inf EXCEPT !.References = n.n])
          ELSE IF HasPrefix(t, "M")
          THEN Parsed([inf EXCEPT
                         !.Entries = SubSeq(lines, i + 1, Len(lines))])
          ELSE scanInfo(lines, i + 1, inf)

parseInfo(out) == scanInfo(ScanLines(out), 1, NoInfo)

(***************************************************************************)
(* SpecSet: the operations of a set handle that borrow a command           *)
(* descriptor from cmdPool (List, and Add, Del and Rename through set.do), *)
(* one call after another; SpecParse: parseInfo applied to a listing.     *)
(***************************************************************************)
\* longest listing, in lines, that parseInfo is applied to on its own
MaxListing == 3

\* set_test.go: listInfo
listInfo ==
    "\nName: foo\nType: hash:ip\nRevision: 4\n" \o
    "Header: family inet hashsize 1024 maxelem 65536\n" \o
    "Size in memory: 168\nReferences: 0\nNumber of entries: 1\n" \o
    "Members:\n1.1.1.1"

\* lines of a listing: the labelled lines, entries, a blank line, and
\* labelled lines whose value is missing or malformed
ListingLines ==
    { "Name: bar", "Type: list:set", "Revision: 4", "Header: family inet",
      "Size in memory: 120", "References: 2", "Members:", "1.1.1.1", "",
      "Revision:4", "References: x", "Header:" }

RECURSIVE Join(_)
Join(lines) ==
    IF lines = <<>> THEN "" ELSE Head(lines) \o LF \o Join(Tail(lines))

\* a full listing with every line terminated
fullListing ==
    Join(<<"Name: bar", "Type: list:set", "Revision: 12",
           "Header: family inet6", "Size in memory: 120", "References: 2",
           "Members:", "2.2.2.2", "1.1.1.1">>)

ParseTexts ==
    {Join(q) : q \in SeqsUpTo(ListingLines, MaxListing)} \cup
    {listInfo, fullListing}

ListTexts ==
    {listInfo, fullListing, "", "Revision:4\nMembers:\n1.1.1.1\n",
     "Name: bar\nReferences: x\n", "Header:\nMembers:\n",
     "Type: list:set\nMembers:\n\n1.1.1.1\n"}

\* the size classes of the allocator a small byte slice is rounded up to
SizeClasses ==
    {8, 16, 24, 32, 48, 64, 80, 96, 112, 128, 144, 160, 176, 192, 208, 224,
     240, 256}

\* the capacity append gives a byte slice of capacity old that has to hold
\* need bytes: twice the old capacity when that is enough, else what is
\* needed, rounded up to a size class
growCap(old, need) ==
    LET want == IF need > 2 * old THEN need ELSE 2 * old
        fit == {k \in SizeClasses : k >= want}
    IN  IF fit = {} THEN want ELSE CHOOSE k \in fit : \A x \in fit : k <= x

\* append(c.out, out...) on the slice cur over the array a: the bytes are
\* written into the array when it has room for them (what the array held
\* there before is overwritten), else into a new array
appendOut(a, cur, out) ==
    LET n == Len(cur) + Len(out)
    IN  IF out = "" THEN [a |-> a, moved |-> FALSE]
        ELSE IF n <= a.cap
        THEN [a |-> [a EXCEPT !.bytes = cur \o out \o
                                        SubSeq(a.bytes, n + 1, Len(a.bytes))],
              moved |-> FALSE]
        ELSE [a |-> [bytes |-> cur \o out, cap |-> growCap(a.cap, n)],
              moved |-> TRUE]

\* the array behind c.out after getCmd and c.exec: a descriptor from the
\* pool comes with the array it was put back with, a new one has none;
\* `moved` says that the array is not the one the pool held
execArray(pooled, a, d, status, out) ==
    LET a0 == IF pooled THEN a ELSE NoArray
        r == IF status = 0 /\ needResolve(d)
             THEN appendOut(a0, d.out, out)
             ELSE [a |-> a0, moved |-> FALSE]
    IN  [a |-> r.a, moved |-> r.moved \/ ~pooled]

\* the reader the caller holds when a call has left the array the reader
\* reads from to the reader alone: it keeps the bytes the array has
keepReader(sv, a, r) ==
    IF sv.arr = "shared" /\ r.moved
    THEN [sv EXCEPT !.arr = "own", !.bytes = a.bytes]
    ELSE sv

\* bytes.NewReader(c.out): a reader over the first Len(c.out) bytes of the
\* array behind c.out, which the descriptor goes on using
NewReader(d) ==
    [arr |-> "shared", n |-> Len(d.out), bytes |-> "", out |-> d.out,
     read |-> FALSE]

\* what a reader delivers when it is read to its end
readAll(sv, a) ==
    IF sv.arr = "shared" THEN SubSeq(a.bytes, 1, sv.n)
    ELSE SubSeq(sv.bytes, 1, sv.n)

\* ioutil.WriteFile(filename, data, 0600): the file is created or
\* truncated and gets the data; the empty name cannot be opened
WriteFile(fs, fname, data) ==
    IF fname \in DOMAIN fs
    THEN [err |-> FALSE, msg |-> "",
          fs |-> [fs EXCEPT ![fname] = [exists |-> TRUE, content |-> data]]]
    ELSE [err |-> TRUE, msg |-> "open " \o fname \o
                               ": no such file or directory", fs |-> fs]

\* getCmd on the instance c0 that cmdPool.Get delivered; entry is the
\* variadic parameter, a sequence of zero or more strings
getCmd(c0, action, name, setType, entry) ==
    [c0 EXCEPT !.action = action, !.name = name, !.setType = setType,
               !.entry = IF Len(entry) > 0 THEN entry[1] ELSE c0.entry]

\* a buggy variant: the output stays on the descriptor
putCmdKeepsOut(d) == d

\* putCmd: c.out = c.out[:0], before cmdPool.Put(c)
putCmd(d) == [d EXCEPT !.out = ""]

\* cmdPool.Get(): an instance the pool holds, or a new one
cmdPoolGet(pool) == pool \cup {NewCmd}

\* a buggy variant: the name and type of the handle are not filled in
listInfoUnnamed(st, p) == p

\* set.List after a successful parse: info.Name, info.SetType
listInfoNamed(st, p) ==
    [p EXCEPT !.v.Name = st.name, !.v.SetType = st.setType]

\* what set.List returns: the error of exec, the error of parseInfo, or the
\* Info with the name and type of the handle
listResult(st, d, status, out) ==
    LET r == execReturn(d, status, out)
        p == parseInfo(execOut(d, status, out).out)
    IN  IF r.err THEN [ret |-> Error("List", r.msg), info |-> NoResult]
        ELSE IF p.kind = "error"
        THEN [ret |-> Error("List", p.msg), info |-> NoResult]
        ELSE IF p.kind = "panic"
        THEN [ret |-> NoRet, info |-> p]
        ELSE [ret |-> [NoError("List") EXCEPT !.ok = TRUE],
              info |-> listInfoNamed(st, p)]

\* parseInfo(out) on its own
Parse(out) ==
    /\ tool' = [status |-> 0, out |-> out]
    /\ info' = parseInfo(out)
    /\ ret' = [NoError("parseInfo") EXCEPT !.ok = (info'.kind = "info"),
                                            !.err = (info'.kind = "error"),
                                            !.msg = info'.msg]
    /\ pc' = IF info'.kind = "panic" THEN "panic" ELSE "done"
    /\ UNCHANGED <<c, opts, args, optionsPool, first, set, cmdPool,
                   restoreVars, shareVars, saveVars>>

\* s.List(os...): `c` is the descriptor as the call leaves it before the
\* deferred putCmd
List(st, os, status, out) ==
    \E c0 \in cmdPoolGet(cmdPool), o0 \in acquireOptions(optionsPool) :
       LET d == getCmd(c0, _list, st.name, st.setType, <<>>)
           res == listResult(st, d, status, out)
       IN  /\ set' = st
           /\ opts' = os
           /\ args' = buildArgs(d, o0, os)
           /\ optionsPool' =
                  (optionsPool \ {o0}) \cup {releaseOptions(apply(o0, os))}
           /\ tool' = [status |-> status, out |-> out]
           /\ invocations' = <<Invocation(args', <<>>, status, out)>>
           /\ c' = execOut(d, status, out)
           /\ cmdPool' = {putCmd(c')}
           /\ saved' = keepReader(saved, backing,
                         execArray(c0 \in cmdPool, backing, d, status, out))
           /\ backing' =
                  reachable(execArray(c0 \in cmdPool, backing, d, status,
                                      out).a, saved')
           /\ ret' = res.ret
           /\ info' = res.info
           /\ pc' = IF res.info.kind = "panic" THEN "panic" ELSE "done"
           /\ UNCHANGED <<first, reader, buf, maxRestoreSize, shareVars,
                          files, filename>>

\* s.do(action, entry, os...): Add, Del and Rename
Do(st, action, entry, os, status, out) ==
    \E c0 \in cmdPoolGet(cmdPool), o0 \in acquireOptions(optionsPool) :
       LET d == getCmd(c0, action, st.name, st.setType, <<entry>>)
       IN  /\ set' = st
           /\ opts' = os
           /\ args' = buildArgs(d, o0, os)
           /\ optionsPool' =
                  (optionsPool \ {o0}) \cup {releaseOptions(apply(o0, os))}
           /\ tool' = [status |-> status, out |-> out]
           /\ invocations' = <<Invocation(args', <<>>, status, out)>>
           /\ c' = execOut(d, status, out)
           /\ cmdPool' = {putCmd(c')}
           /\ saved' = keepReader(saved, backing,
                         execArray(c0 \in cmdPool, backing, d, status, out))
           /\ backing' =
                  reachable(execArray(c0 \in cmdPool, backing, d, status,
                                      out).a, saved')
           /\ ret' = [execReturn(d, status, out) EXCEPT !.op = "do"]
           /\ pc' = "done"
           /\ UNCHANGED <<first, info, reader, buf, maxRestoreSize,
                          shareVars, files, filename>>

ParseAny ==
    /\ pc = "idle"
    /\ \E out \in ParseTexts : Parse(out)

ListAny ==
    /\ pc = "idle"
    /\ \E name \in HandleNames, setType \in HandleTypes,
          os \in {<<>>, <<Resolve(TRUE)>>} :
         \/ \E out \in ListTexts : List(Handle(name, setType), os, 0, out)
         \/ \E out \in ToolOutputs : List(Handle(name, setType), os, 1, out)

DoAny ==
    /\ pc = "idle"
    /\ \E name \in HandleNames, setType \in HandleTypes,
          action \in {_add, _del, _rename}, entry \in ExecEntries,
          os \in {<<>>, <<Exist(TRUE)>>}, status \in ToolStatuses,
          out \in {"", "fake error"} :
           Do(Handle(name, setType), action, entry, os, status, out)

\* SpecParse: parseInfo applied to listings
NextParse == ParseAny \/ Return

SpecParse == Init /\ [][NextParse]_vars

NextSet == ListAny \/ DoAny \/ Return

SpecSet == Init /\ [][NextSet]_vars

(***************************************************************************)
(* SpecSave: set.Save, set.ListToFile and set.SaveToFile, with List and    *)
(* Add as the other borrowers of the pooled descriptor, and a caller that  *)
(* reads the reader Save returned some calls later.                        *)
(***************************************************************************)
\* what the tool prints for a save
SaveTexts == {"", "add foo 1.1.1.1\n", "add foo 2.2.2.2\n"}

\* what the tool prints for a list
ShortListings == {"Members:\n", "Members:\n1.1.1.1\n"}

\* the file names a caller passes
FileArgs == FileNames \cup {""}

\* a buggy variant: the file is written although exec failed
toFileResultWritesAnyway(fs, fname, d, status, out) ==
    LET w == WriteFile(fs, fname, out)
    IN  IF status # 0
        THEN [ret |-> Error("doToFile", execReturn(d, status, out).msg),
              fs |-> w.fs]
        ELSE IF w.err THEN [ret |-> Error("doToFile", w.msg), fs |-> fs]
        ELSE [ret |-> [NoError("doToFile") EXCEPT !.ok = TRUE], fs |-> w.fs]

\* what doToFile returns and the files it leaves: the error of exec with
\* the files as they were, else what WriteFile makes of c.out
toFileResult(fs, fname, d, status, out) ==
    LET r == execReturn(d, status, out)
        w == WriteFile(fs, fname, execOut(d, status, out).out)
    IN  IF r.err THEN [ret |-> Error("doToFile", r.msg), fs |-> fs]
        ELSE IF w.err THEN [ret |-> Error("doToFile", w.msg), fs |-> fs]
        ELSE [ret |-> [NoError("doToFile") EXCEPT !.ok = TRUE], fs |-> w.fs]

\* s.Save(os...): `c` is the descriptor as the call leaves it before the
\* deferred putCmd; the reader is made over c.out, and the descriptor goes
\* back to the pool with the array of c.out
Save(st, os, status, out) ==
    \E c0 \in cmdPoolGet(cmdPool), o0 \in acquireOptions(optionsPool) :
       LET d == getCmd(c0, _save, st.name, st.setType, <<>>)
           r == execReturn(d, status, out)
           x == execArray(c0 \in cmdPool, backing, d, status, out)
       IN  /\ set' = st
           /\ opts' = os
           /\ args' = buildArgs(d, o0, os)
           /\ optionsPool' =
                  (optionsPool \ {o0}) \cup {releaseOptions(apply(o0, os))}
           /\ tool' = [status |-> status, out |-> out]
           /\ invocations' = <<Invocation(args', <<>>, status, out)>>
           /\ c' = execOut(d, status, out)
           /\ cmdPool' = {putCmd(c')}
           /\ ret' = IF r.err THEN Error("Save", r.msg)
                     ELSE [NoError("Save") EXCEPT !.ok = TRUE]
           /\ saved' = IF r.err THEN keepReader(saved, backing, x)
                       ELSE NewReader(c')
           /\ backing' = reachable(x.a, saved')
           /\ pc' = "done"
           /\ UNCHANGED <<first, info, reader, buf, maxRestoreSize,
                          shareVars, files, filename>>

\* s.doToFile(action, filename, os...): ListToFile and SaveToFile
doToFile(st, action, fname, os, status, out) ==
    \E c0 \in cmdPoolGet(cmdPool), o0 \in acquireOptions(optionsPool) :
       LET d == getCmd(c0, action, st.name, st.setType, <<>>)
           x == execArray(c0 \in cmdPool, backing, d, status, out)
           res == toFileResult(files, fname, d, status, out)
       IN  /\ set' = st
           /\ opts' = os
           /\ filename' = fname
           /\ args' = buildArgs(d, o0, os)
           /\ optionsPool' =
                  (optionsPool \ {o0}) \cup {releaseOptions(apply(o0, os))}
           /\ tool' = [status |-> status, out |-> out]
           /\ invocations' = <<Invocation(args', <<>>, status, out)>>
           /\ c' = execOut(d, status, out)
           /\ cmdPool' = {putCmd(c')}
           /\ ret' = res.ret
           /\ files' = res.fs
           /\ saved' = keepReader(saved, backing, x)
           /\ backing' = reachable(x.a, saved')
           /\ pc' = "done"
           /\ UNCHANGED <<first, info, reader, buf, maxRestoreSize,
                          shareVars>>

\* the caller reads the reader it holds to its end
ReadAll ==
    /\ pc = "idle"
    /\ saved.arr # "none"
    /\ ~saved.read
    /\ ret' = [NoError("Read") EXCEPT !.ok = TRUE,
                                      !.msg = readAll(saved, backing)]
    /\ saved' = [saved EXCEPT !.read = TRUE]
    /\ pc' = "done"
    /\ UNCHANGED <<c, opts, args, optionsPool, first, tool, setVars,
                   restoreVars, shareVars, backing, files, filename>>

SaveAny ==
    /\ pc = "idle"
    /\ \E os \in {<<>>, <<Resolve(TRUE)>>} :
         \/ \E out \in SaveTexts : Save(Handle("foo", HashIp), os, 0, out)
         \/ Save(Handle("foo", HashIp), os, 1, "fake error")

ToFileAny ==
    /\ pc = "idle"
    /\ \E action \in {_list, _save}, fname \in FileArgs :
         \/ \E out \in ShortListings \cup SaveTexts :
              doToFile(Handle("foo", HashIp), action, fname, <<>>, 0, out)
         \/ doToFile(Handle("foo", HashIp), action, fname, <<>>, 1,
                     "fake error")

ListLaterAny ==
    /\ pc = "idle"
    /\ \/ \E out \in ShortListings : List(Handle("foo", HashIp), <<>>, 0, out)
       \/ List(Handle("foo", HashIp), <<>>, 1, "fake error")

AddAny ==
    /\ pc = "idle"
    /\ \E status \in ToolStatuses :
           Do(Handle("foo", HashIp), _add, "1.1.1.1", <<>>, status,
              IF status = 0 THEN "" ELSE "fake error")

NextSave ==
    \/ SaveAny
    \/ ToFileAny
    \/ ListLaterAny
    \/ AddAny
    \/ ReadAll
    \/ Return

SpecSave == Init /\ [][NextSave]_vars

(***************************************************************************)
(* SpecRestore: set.Restore.  The input is a string of bytes; the loop     *)
(* reads it line by line (ReadBytes), collects the lines in the buffer and *)
(* hands the buffer to s.restore before a line that would make it longer   *)
(* than maxRestoreSize, and once more at the end of the input.  Each call  *)
(* of s.restore is recorded in `invocations` when it starts and gets its   *)
(* outcome when it ends.                                                   *)
(***************************************************************************)
\* most lines of an input of Restore
MaxStream == 3

StreamLines == {"a", "bb", "cccc"}

\* what may follow the last line feed of the input
StreamTails == {"", "z"}

Streams ==
    {Join(q) \o tail : q \in SeqsUpTo(StreamLines, MaxStream),
                       tail \in StreamTails} \cup
    {"1.1.1.1\n2.2.2.2\n", "1.1.1.1\n"}

\* values of maxRestoreSize (the tests set 10)
MaxSizes == {1, 3, 4, 10, DefaultMaxRestoreSize}

\* the variadic parameter exist ...bool
ExistArgs == {<<>>, <<TRUE>>, <<FALSE>>}

\* how a call of s.restore ends: the tool exits with 0 ("ok") or not
\* ("exit"), or the tool is not run because StdinPipe fails ("stdinpipe"),
\* pipe.Write fails and pipe.Close succeeds ("write") or fails
\* ("writeclose"), or pipe.Close fails after the write ("close")
RestoreOutcomes == {"ok", "exit", "stdinpipe", "write", "writeclose", "close"}

\* what the reader has not delivered yet
Unread(r) == SubSeq(r.data, r.pos + 1, Len(r.data))

\* br.ReadBytes('\n'): the bytes up to and with the next line feed, or all
\* that is left together with io.EOF
ReadBytes(r) ==
    LET rest == Unread(r)
        i == IndexByte(rest, LF)
    IN  IF i = 0
        THEN [bb |-> rest, eof |-> TRUE, r |-> [r EXCEPT !.pos = Len(r.data)]]
        ELSE [bb |-> SubSeq(rest, 1, i), eof |-> FALSE,
              r |-> [r EXCEPT !.pos = r.pos + i]]

\* s.restore: the arguments of the tool
restoreArgs(exist) ==
    IF Len(exist) > 0 /\ exist[1] THEN <<_restore, _exist>> ELSE <<_restore>>

\* s.restore: the error it returns; after a failed write it returns what
\* pipe.Close returns
restoreErr(outcome, out) ==
    CASE outcome = "ok" -> [err |-> FALSE, text |-> ""]
      [] outcome = "exit" -> [err |-> TRUE, text |-> out]
      [] outcome = "stdinpipe" -> [err |-> TRUE, text |-> "pipe failed"]
      [] outcome = "write" -> [err |-> FALSE, text |-> ""]
      [] outcome = "writeclose" -> [err |-> TRUE, text |-> "close failed"]
      [] outcome = "close" -> [err |-> TRUE, text |-> "close failed"]

\* a buggy variant: the message names the set only
restoreErrorNoType(st, text) ==
    "ipset: can't restore to " \o st.name \o ": " \o text

\* the deferred wrapper of Restore
restoreError(st, text) ==
    "ipset: can't restore to " \o st.name \o "(" \o st.setType \o "): " \o text

\* a call of s.restore that has started and not ended
Running(b, exist) ==
    [args |-> restoreArgs(exist), stdin |-> b, status |-> 0, out |-> "",
     outcome |-> "running"]

\* the same call once it has ended
Ended(run, outcome, out) ==
    [run EXCEPT !.outcome = outcome, !.out = out,
                !.status = IF outcome = "exit" THEN 1 ELSE 0]

\* a buggy variant: the buffer is handed over after the loop only
tooLongNever(b, bb, max) == FALSE

\* b.Len()+len(bb) > maxRestoreSize
tooLong(b, bb, max) == Len(b) + Len(bb) > max

\* a buggy variant: the line read before the buffer was handed over is lost
nextBufDropsLine(b, bb, flushed) == IF flushed THEN "" ELSE b \o bb

\* the buffer after the turn of the loop: b.Reset() when the buffer was
\* handed over, then b.Write(bb)
nextBuf(b, bb, flushed) == IF flushed THEN bb ELSE b \o bb

\* s.Restore(r, exist...): the reader is acquired, the buffer is empty
RestoreCall(st, data, max, exist) ==
    /\ set' = st
    /\ reader' = [data |-> data, pos |-> 0]
    /\ buf' = ""
    /\ maxRestoreSize' = max
    /\ opts' = exist
    /\ invocations' = <<>>
    /\ pc' = "read"
    /\ UNCHANGED <<c, args, optionsPool, first, tool, ret, cmdPool, info,
                   shareVars, saveVars>>

\* one turn of the loop: at the end of the input the loop is left (what
\* ReadBytes delivered with io.EOF is dropped); a line that fits is
\* written to the buffer; before a line that does not fit s.restore is
\* started on the buffer (the line bb stays at the front of the unread
\* input until that call has ended)
RestoreLine ==
    /\ pc = "read"
    /\ LET rb == ReadBytes(reader)
       IN  IF rb.eof
           THEN /\ reader' = rb.r
                /\ pc' = "final"
                /\ UNCHANGED <<buf, invocations>>
           ELSE IF tooLong(buf, rb.bb, maxRestoreSize)
           THEN /\ invocations' = Append(invocations, Running(buf, opts))
                /\ pc' = "wait"
                /\ UNCHANGED <<reader, buf>>
           ELSE /\ buf' = nextBuf(buf, rb.bb, FALSE)
                /\ reader' = rb.r
                /\ UNCHANGED <<pc, invocations>>
    /\ UNCHANGED <<c, opts, args, optionsPool, first, tool, ret, setVars,
                   maxRestoreSize, shareVars, saveVars>>

\* the reader fails with an error that is not io.EOF
RestoreReadError ==
    /\ pc = "read"
    /\ ret' = Error("Restore", restoreError(set, "read failed"))
    /\ pc' = "done"
    /\ UNCHANGED <<c, opts, args, optionsPool, first, tool, setVars,
                   restoreVars, shareVars, saveVars>>

\* the call of s.restore inside the loop ends: on an error Restore returns
\* it, else the buffer is reset and the line is written to it
RestoreEnded(outcome, out) ==
    /\ pc = "wait"
    /\ LET n == Len(invocations)
           e == restoreErr(outcome, out)
           rb == ReadBytes(reader)
       IN  /\ invocations' =
                 [invocations EXCEPT ![n] = Ended(invocations[n], outcome, out)]
           /\ IF e.err
              THEN /\ ret' = Error("Restore", restoreError(set, e.text))
                   /\ pc' = "done"
                   /\ UNCHANGED <<reader, buf>>
              ELSE /\ buf' = nextBuf(buf, rb.bb, TRUE)
                   /\ reader' = rb.r
                   /\ pc' = "read"
                   /\ UNCHANGED ret
    /\ UNCHANGED <<c, opts, args, optionsPool, first, tool, setVars,
                   maxRestoreSize, shareVars, saveVars>>

\* after the loop: return s.restore(b.Bytes(), exist...)
RestoreFinal ==
    /\ pc = "final"
    /\ invocations' = Append(invocations, Running(buf, opts))
    /\ pc' = "waitfinal"
    /\ UNCHANGED <<c, opts, args, optionsPool, first, tool, ret, setVars,
                   reader, buf, maxRestoreSize, shareVars, saveVars>>

\* the last call of s.restore ends and Restore returns
RestoreFinalEnded(outcome, out) ==
    /\ pc = "waitfinal"
    /\ LET n == Len(invocations)
           e == restoreErr(outcome, out)
       IN  /\ invocations' =
                 [invocations EXCEPT ![n] = Ended(invocations[n], outcome, out)]
           /\ ret' = IF e.err
                     THEN Error("Restore", restoreError(set, e.text))
                     ELSE [NoError("Restore") EXCEPT !.ok = TRUE]
    /\ pc' = "done"
    /\ UNCHANGED <<c, opts, args, optionsPool, first, tool, setVars, reader,
                   buf, maxRestoreSize, shareVars, saveVars>>

RestoreAny ==
    /\ pc = "idle"
    /\ \E name \in {"foo"}, setType \in HandleTypes, data \in Streams,
          max \in MaxSizes, exist \in ExistArgs :
           RestoreCall(Handle(name, setType), data, max, exist)

RestoreEndedAny ==
    /\ pc = "wait"
    /\ \/ \E outcome \in RestoreOutcomes \ {"exit"} : RestoreEnded(outcome, "")
       \/ \E out \in {"", "fake error"} : RestoreEnded("exit", out)

RestoreFinalEndedAny ==
    /\ pc = "waitfinal"
    /\ \/ \E outcome \in RestoreOutcomes \ {"exit"} :
             RestoreFinalEnded(outcome, "")
       \/ \E out \in {"", "fake error"} : RestoreFinalEnded("exit", out)

NextRestore ==
    \/ RestoreAny
    \/ RestoreLine
    \/ RestoreReadError
    \/ RestoreEndedAny
    \/ RestoreFinal
    \/ RestoreFinalEndedAny
    \/ Return

SpecRestore == Init /\ [][NextRestore]_vars

(***************************************************************************)
(* SpecShare: calls running at the same time on the two reuse pools.  An   *)
(* instance is a number; a pool is the set of instances it holds.  Each    *)
(* call borrows a descriptor (getCmd), compiles its arguments with a       *)
(* borrowed modifier set (appendArgs: acquireOptions, deferred             *)
(* releaseOptions), runs the tool and gives the descriptor back (deferred  *)
(* putCmd).  The steps of different calls interleave freely.               *)
(***************************************************************************)
\* most instances New makes for one pool
MaxInstances == 2

\* a buggy variant: the instance stays in the pool
poolTakeKeeps(pool, id) == pool

\* sync.Pool.Get, when it delivers a pooled instance: the pool gives it up
poolTake(pool, id) == pool \ {id}

\* sync.Pool.Put
poolPut(pool, id) == pool \cup {id}

\* getCmd: c := cmdPool.Get().(*cmd), from the pool
ShareGetCmd(p) ==
    /\ calls[p].pc = "idle"
    /\ \E id \in pools.cmd :
         /\ calls' = [calls EXCEPT ![p] = [pc |-> "buildArgs", cmd |-> id,
                                           opt |-> 0]]
         /\ pools' = [pools EXCEPT !.cmd = poolTake(pools.cmd, id)]

\* getCmd: c := cmdPool.Get().(*cmd), made by New
ShareNewCmd(p) ==
    /\ calls[p].pc = "idle"
    /\ pools.cmds < MaxInstances
    /\ calls' = [calls EXCEPT ![p] = [pc |-> "buildArgs",
                                      cmd |-> pools.cmds + 1, opt |-> 0]]
    /\ pools' = [pools EXCEPT !.cmds = pools.cmds + 1]

\* appendArgs: o := acquireOptions(), from the pool
ShareAcquireOptions(p) ==
    /\ calls[p].pc = "buildArgs"
    /\ \E id \in pools.opt :
         /\ calls' = [calls EXCEPT ![p].pc = "appendArgs", ![p].opt = id]
         /\ pools' = [pools EXCEPT !.opt = poolTake(pools.opt, id)]

\* appendArgs: o := acquireOptions(), made by New
ShareNewOptions(p) ==
    /\ calls[p].pc = "buildArgs"
    /\ pools.options < MaxInstances
    /\ calls' = [calls EXCEPT ![p].pc = "appendArgs",
                              ![p].opt = pools.options + 1]
    /\ pools' = [pools EXCEPT !.options = pools.options + 1]

\* appendArgs returns: the deferred releaseOptions(o) resets o and puts it
\* back; the call keeps no reference to it
ShareReleaseOptions(p) ==
    /\ calls[p].pc = "appendArgs"
    /\ pools' = [pools EXCEPT !.opt = poolPut(pools.opt, calls[p].opt)]
    /\ calls' = [calls EXCEPT ![p].pc = "execCommand", ![p].opt = 0]

\* exec: the tool runs and its output is appended to c.out
ShareRun(p) ==
    /\ calls[p].pc = "execCommand"
    /\ calls' = [calls EXCEPT ![p].pc = "putCmd"]
    /\ UNCHANGED pools

\* the call returns: the deferred putCmd(c) empties c.out and puts c back
SharePutCmd(p) ==
    /\ calls[p].pc = "putCmd"
    /\ pools' = [pools EXCEPT !.cmd = poolPut(pools.cmd, calls[p].cmd)]
    /\ calls' = [calls EXCEPT ![p] = NoBorrow]

\* the steps of a call leave the rest of the state alone
ShareFrame ==
    UNCHANGED <<pc, c, opts, args, optionsPool, first, tool, ret, setVars,
                restoreVars, saveVars>>

GetCmdAny == ShareFrame /\ \E p \in Procs : ShareGetCmd(p)
NewCmdAny == ShareFrame /\ \E p \in Procs : ShareNewCmd(p)
AcquireOptionsAny == ShareFrame /\ \E p \in Procs : ShareAcquireOptions(p)
NewOptionsAny == ShareFrame /\ \E p \in Procs : ShareNewOptions(p)
ReleaseOptionsAny == ShareFrame /\ \E p \in Procs : ShareReleaseOptions(p)
RunAny == ShareFrame /\ \E p \in Procs : ShareRun(p)
PutCmdAny == ShareFrame /\ \E p \in Procs : SharePutCmd(p)

NextShare ==
    \/ GetCmdAny
    \/ NewCmdAny
    \/ AcquireOptionsAny
    \/ NewOptionsAny
    \/ ReleaseOptionsAny
    \/ RunAny
    \/ PutCmdAny

SpecShare == Init /\ [][NextShare]_vars

(***************************************************************************)
(* Reading a compiled token sequence, for the properties below.  The       *)
(* string values the model feeds in are never equal to a flag token, so a  *)
(* flag token in the sequence is a flag.  `comment` and `range` are each   *)
(* shared by two categories, told apart by the token that follows.         *)
(***************************************************************************)
Categories ==
    << "timeout", "exist", "resolve", "counters", "countersPackets",
       "countersBytes", "comment", "commentContent", "skbinfo", "skbmark",
       "skbprio", "skbqueue", "nomatch", "forceadd", "family", "hashSize",
       "maxElem", "netmask", "markmask", "listSize", "ipRange",
       "portRange" >>

FlagOf ==
    [ timeout |-> "timeout", exist |-> "-exist", resolve |-> "-resolve",
      counters |-> "counters", countersPackets |-> "packets",
      countersBytes |-> "bytes", comment |-> "comment",
      commentContent |-> "comment", skbinfo |-> "skbinfo",
      skbmark |-> "skbmark", skbprio |-> "skbprio", skbqueue |-> "skbqueue",
      nomatch |-> "nomatch", forceadd |-> "forceadd", family |-> "family",
      hashSize |-> "hashsize", maxElem |-> "maxelem", netmask |-> "netmask",
      markmask |-> "markmask", listSize |-> "size", ipRange |-> "range",
      portRange |-> "range" ]

FlagTokens == {FlagOf[k] : k \in Range(Categories)}

BoolCats ==
    {"exist", "resolve", "counters", "comment", "skbinfo", "nomatch",
     "forceadd"}
NumCats ==
    {"countersPackets", "countersBytes", "skbqueue", "hashSize", "maxElem",
     "netmask", "markmask", "listSize"}
StrCats ==
    {"commentContent", "skbmark", "skbprio", "family", "ipRange", "portRange"}

\* the flags that are followed by a value
ValuedFlagTokens == {FlagOf[k] : k \in Range(Categories) \ BoolCats}

\* the values the model's option lists give to each category
ValuesOfCat ==
    [k \in Range(Categories) |->
        {x.v : x \in {y \in Options \cup OrderOptions : y.f = k}}]

ValuesOf(k) == ValuesOfCat[k]

\* the value of the last application of category k in os, or its sentinel
RECURSIVE LastVal(_, _)
LastVal(os, k) ==
    IF os = <<>> THEN NewOptions[k]
    ELSE IF os[Len(os)].f = k THEN os[Len(os)].v
    ELSE LastVal(SubSeq(os, 1, Len(os) - 1), k)

\* the token that must follow the flag of a valued category
Rendered(k, v) ==
    IF k = "timeout" THEN ToString(v \div Second)
    ELSE IF k \in NumCats THEN ToString(v)
    ELSE v

\* the positions of a at which category k's flag stands
FlagAt(a, k) ==
    { i \in 1..Len(a) :
        /\ a[i] = FlagOf[k]
        /\ CASE k = "comment" ->
                  i = Len(a) \/ a[i + 1] \notin ValuesOf("commentContent")
             [] k = "commentContent" ->
                  i < Len(a) /\ a[i + 1] \in ValuesOf("commentContent")
             [] k = "ipRange" ->
                  i < Len(a) /\ a[i + 1] \in ValuesOf("ipRange")
             [] k = "portRange" ->
                  i < Len(a) /\ a[i + 1] \in ValuesOf("portRange")
             [] OTHER -> TRUE }

Emitted(a, k) == FlagAt(a, k) # {}

\* the tokens the claims give as positional
Positional(d) ==
    IF d.action \in {_list, _save, _destroy, _flush}
    THEN <<d.action, d.name>>
    ELSE <<d.action, d.name, d.entry>>

Done == pc = "done"

(***************************************************************************)
(* The applicability table of the specification, by category.              *)
(***************************************************************************)
ActionOnlyCats ==
    {"exist", "timeout", "resolve", "counters", "comment", "skbinfo",
     "forceadd", "countersPackets", "countersBytes", "commentContent",
     "skbmark", "skbprio", "skbqueue"}

LegalActions(k) ==
    CASE k = "exist" -> {_create, _add, _del}
      [] k = "timeout" -> {_create, _add}
      [] k = "resolve" -> {_list, _save}
      [] k \in {"counters", "comment", "skbinfo", "forceadd"} -> {_create}
      [] OTHER -> {_add}

NomatchTypes ==
    {"hash:net", "hash:net,net", "hash:net,port", "hash:ip,port,net",
     "hash:net,port,net", "hash:net,iface"}

TypeCats ==
    {"family", "hashSize", "maxElem", "netmask", "markmask", "listSize",
     "ipRange", "portRange"}

LegalType(k, t) ==
    CASE k = "family" -> HasPrefix(t, "hash:") /\ t # "hash:mac"
      [] k \in {"hashSize", "maxElem"} -> HasPrefix(t, "hash:")
      [] k = "netmask" -> t \in {"bitmap:ip", "hash:ip"}
      [] k = "markmask" -> t = "hash:ip,mark"
      [] k = "listSize" -> t = "list:set"
      [] k = "ipRange" -> t \in {"bitmap:ip", "bitmap:ip,mac"}
      [] k = "portRange" -> t = "bitmap:port"

\* the table as a whole: is category k legal for descriptor d
Legal(k, d) ==
    IF k \in ActionOnlyCats THEN d.action \in LegalActions(k)
    ELSE IF k = "nomatch" THEN d.action = _add /\ d.setType \in NomatchTypes
    ELSE d.action = _create /\ LegalType(k, d.setType)

\* category k was last applied with a value that makes it count as set: for
\* a timeout a positive duration, for the others any value but the sentinel
IsSet(os, k) ==
    IF k = "timeout" THEN LastVal(os, k) > 0
    ELSE LastVal(os, k) # NewOptions[k]

C1_NegativeWitness ==
    /\ Done
    /\ c.action = _create
    /\ LastVal(opts, "timeout") < 0
    /\ ~Emitted(args, "timeout")

(***************************************************************************)
(* C2: for every action and set type, once Nomatch(true) is applied the    *)
(* compiled tokens contain `nomatch` exactly when the action is add and    *)
(* the set type is one of the six net-storing hash types; when Nomatch     *)
(* (true) is the only option and the pair is any other, nothing at all is  *)
(* emitted after the positional tokens.                                    *)
(***************************************************************************)
C2_NomatchMatrix ==
    Done =>
      /\ LastVal(opts, "nomatch") = TRUE =>
           (Emitted(args, "nomatch") <=>
              (c.action = _add /\ c.setType \in NomatchTypes))
      /\ (opts = <<Nomatch(TRUE)>> /\
          ~(c.action = _add /\ c.setType \in NomatchTypes)) =>
           args = Positional(c)

\* nomatch emitted for an add to a hash:net,iface set
C2_Witness ==
    /\ Done
    /\ c.action = _add
    /\ c.setType = "hash:net,iface"
    /\ opts = <<Nomatch(TRUE)>>
    /\ args = <<_add, c.name, c.entry, "nomatch">>

\* nomatch dropped for an add to a hash type that stores no net
C2_WitnessDropped ==
    /\ Done
    /\ c.action = _add
    /\ c.setType = "hash:ip,port,ip"
    /\ opts = <<Nomatch(TRUE)>>
    /\ args = <<_add, c.name, c.entry>>

(***************************************************************************)
(* C3: for every action and set type, a type-dependent create modifier     *)
(* (family, hashsize, maxelem, netmask, markmask, list size, ip range,     *)
(* port range) applied with a non-sentinel value is emitted exactly when   *)
(* the action is create and the set type is one the table names for it.    *)
(***************************************************************************)
C3_TypeMatrix ==
    Done =>
      \A k \in TypeCats :
        LastVal(opts, k) # NewOptions[k] =>
          (Emitted(args, k) <=>
             (c.action = _create /\ LegalType(k, c.setType)))

\* family emitted for create hash:ip, with its value
C3_Witness ==
    /\ Done
    /\ c.action = _create
    /\ c.setType = "hash:ip"
    /\ opts = <<Family(Inet6)>>
    /\ args = <<_create, c.name, c.entry, "family", "inet6">>

\* family dropped for create hash:mac
C3_WitnessMac ==
    /\ Done
    /\ c.action = _create
    /\ c.setType = "hash:mac"
    /\ opts = <<Family(Inet6)>>
    /\ args = <<_create, c.name, c.entry>>

(***************************************************************************)
(* C4: a modifier whose field holds its unset sentinel contributes no      *)
(* token, for every action and set type, legal or not; when every field    *)
(* is unset the compiled tokens are the positional tokens alone.           *)
(***************************************************************************)
C4_SentinelSilent ==
    Done =>
      /\ \A k \in Range(Categories) :
           LastVal(opts, k) = NewOptions[k] => ~Emitted(args, k)
      /\ (\A k \in Range(Categories) : LastVal(opts, k) = NewOptions[k]) =>
           args = Positional(c)

\* Exist(false) on a create, where -exist is legal: nothing emitted
C4_Witness ==
    /\ Done
    /\ c.action = _create
    /\ opts = <<Exist(FALSE)>>
    /\ args = <<_create, c.name, c.entry>>

\* every modifier applied with its sentinel on an add
C4_WitnessAll ==
    /\ Done
    /\ c.action = _add
    /\ opts = AllUnset
    /\ args = <<_add, c.name, c.entry>>

(***************************************************************************)
(* C5: the compiled tokens start with [action, name] for list, save,       *)
(* destroy and flush and with [action, name, entry] for every other        *)
(* action; every flag token stands after them, and every token after them  *)
(* is a flag or the value of the flag before it, whatever the options.     *)
(***************************************************************************)
C5_PositionalFirst ==
    Done =>
      LET p == Positional(c)
      IN  /\ Len(args) >= Len(p)
          /\ SubSeq(args, 1, Len(p)) = p
          /\ \A i \in 1..Len(args) : args[i] \in FlagTokens => i > Len(p)
          /\ \A i \in (Len(p) + 1)..Len(args) :
                \/ args[i] \in FlagTokens
                \/ i > Len(p) + 1 /\ args[i - 1] \in ValuedFlagTokens

\* a two-argument action with a modifier token behind the name
C5_Witness ==
    /\ Done
    /\ c.action = _save
    /\ args = <<_save, c.name, "-resolve">>

\* a flush, for which no modifier is legal
C5_WitnessFlush ==
    /\ Done
    /\ c.action = _flush
    /\ opts = AllSet
    /\ args = <<_flush, c.name>>

\* a three-argument action with modifier tokens behind the entry
C5_WitnessThree ==
    /\ Done
    /\ c.action = _add
    /\ Len(args) > 3
    /\ SubSeq(args, 1, 3) = <<_add, c.name, c.entry>>

(***************************************************************************)
(* Helpers on option lists for the order and overwrite properties.         *)
(***************************************************************************)
\* no category is applied twice in os
OncePerCategory(os) ==
    \A i, j \in 1..Len(os) : os[i].f = os[j].f => i = j

\* os rearranged by the permutation q of its positions
Permuted(os, q) == [i \in 1..Len(os) |-> os[q[i]]]

\* os with positions i and i+1 exchanged
Swapped(os, i) ==
    [j \in 1..Len(os) |->
        IF j = i THEN os[i + 1] ELSE IF j = i + 1 THEN os[i] ELSE os[j]]

\* the rearrangements of os that are compared: all of them for a short
\* list, the reversal and the adjacent exchanges for a long one
Rearranged(os) ==
    IF Len(os) <= 4
    THEN {Permuted(os, q) : q \in Permutations(1..Len(os))}
    ELSE {Reverse(os)} \cup {Swapped(os, i) : i \in 1..(Len(os) - 1)}

\* os with only the last application of every category kept
RECURSIVE LastOnly(_)
LastOnly(os) ==
    IF os = <<>> THEN <<>>
    ELSE IF \E j \in 2..Len(os) : os[j].f = Head(os).f
         THEN LastOnly(Tail(os))
         ELSE <<Head(os)>> \o LastOnly(Tail(os))

\* the place of each category in the fixed order
CatIdx ==
    [k \in Range(Categories) |->
        CHOOSE i \in 1..Len(Categories) : Categories[i] = k]

\* the category whose flag stands at position i of a, by its place in the
\* fixed order; 0 when the token at i is no flag
CatAt(a, i) ==
    LET ks == {k \in Range(Categories) : FlagOf[k] = a[i] /\ i \in FlagAt(a, k)}
    IN  IF ks = {} THEN 0 ELSE CatIdx[CHOOSE k \in ks : TRUE]

(***************************************************************************)
(* C6: the modifier tokens stand in the fixed category order (timeout,     *)
(* exist, resolve, ..., ip range, port range) whatever the order of the    *)
(* option list, and every rearrangement of an option list that sets each   *)
(* category at most once compiles to the same tokens.                      *)
(***************************************************************************)
C6_FixedOrder ==
    Done =>
      /\ \A i, j \in 1..Len(args) :
           (i < j /\ CatAt(args, i) # 0 /\ CatAt(args, j) # 0) =>
             CatAt(args, i) < CatAt(args, j)
      /\ OncePerCategory(opts) =>
           \A r \in Rearranged(opts) : buildArgs(c, NewOptions, r) = args

\* -exist supplied before timeout, compiled as timeout then -exist
C6_Witness ==
    /\ Done
    /\ c.action = _create
    /\ opts = <<Exist(TRUE), Timeout(Second)>>
    /\ args = <<_create, c.name, c.entry, "timeout", "1", "-exist">>

\* the full list supplied backwards on an add to a hash:net set
C6_WitnessFull ==
    /\ Done
    /\ c.action = _add
    /\ c.setType = "hash:net"
    /\ opts = Reverse(AllSet)
    /\ args = <<_add, c.name, c.entry, "timeout", "1", "-exist",
                "packets", "42", "bytes", "1024", "comment", "allow access",
                "skbmark", "0x1111/0xff00ffff", "skbprio", "1:10",
                "skbqueue", "10", "nomatch">>

(***************************************************************************)
(* C8: applying a modifier several times is last-write-wins.  The tokens   *)
(* are those of the list with only the last application of each category   *)
(* kept; a category is emitted exactly when its last value is set and the  *)
(* table allows it, whatever was applied to other categories; a valued     *)
(* flag is followed by the last value; no flag token occurs twice.         *)
(***************************************************************************)
C8_LastWriteWins ==
    Done =>
      /\ args = buildArgs(c, NewOptions, LastOnly(opts))
      /\ \A k \in Range(Categories) :
           /\ Emitted(args, k) <=> (IsSet(opts, k) /\ Legal(k, c))
           /\ k \notin BoolCats =>
                \A i \in FlagAt(args, k) :
                  /\ i < Len(args)
                  /\ args[i + 1] = Rendered(k, LastVal(opts, k))
      /\ \A t \in FlagTokens :
           Cardinality({i \in 1..Len(args) : args[i] = t}) <= 1

\* Exist(true) then Exist(false): no -exist
C8_Witness ==
    /\ Done
    /\ c.action = _create
    /\ opts = <<Exist(TRUE), Exist(FALSE)>>
    /\ args = <<_create, c.name, c.entry>>

\* Timeout(1s) then Timeout(2s): only the second, once
C8_WitnessTimeout ==
    /\ Done
    /\ c.action = _create
    /\ opts = <<Timeout(Second), Timeout(2 * Second)>>
    /\ args = <<_create, c.name, c.entry, "timeout", "2">>

\* an unset value overwritten by a set one
C8_WitnessReset ==
    /\ Done
    /\ c.action = _create
    /\ c.setType = "hash:ip"
    /\ opts = <<HashSize(0), HashSize(1536)>>
    /\ args = <<_create, c.name, c.entry, "hashsize", "1536">>

(***************************************************************************)
(* C7: compiling the same descriptor and option list twice gives the same  *)
(* tokens, also when other compile calls ran in between and the modifier   *)
(* set came back from the pool.                                            *)
(***************************************************************************)
C7_Idempotent ==
    (Done /\ first.set /\ c = first.c /\ opts = first.opts) =>
      args = first.args

\* the same add compiled again after a different call went through the pool
C7_Witness ==
    /\ Done
    /\ first.set
    /\ first.other
    /\ first.opts = <<>>
    /\ first.c.action = _add
    /\ c = first.c
    /\ opts = first.opts
    /\ args = <<_add, c.name, c.entry>>
    /\ optionsPool = {NewOptions}

(***************************************************************************)
(* C9: Test returns (true, nil) exactly when the tool exits with status    *)
(* zero, (false, nil) exactly when it exits non-zero with the marker NOT   *)
(* in its output, and otherwise false with the error                       *)
(* "ipset: can't test <name> <entry>: <output>".                           *)
(***************************************************************************)
\* the outputs of the model that contain the marker
MarkedOutputs ==
    { "1.1.1.2 is NOT in set foo.",
      "Syntax error: cannot parse NOTHING: resolving to IPv4 address failed" }

C9_TestResult ==
    (Done /\ ret.op = "Test") =>
      /\ (ret.ok /\ ~ret.err) <=> tool.status = 0
      /\ (~ret.ok /\ ~ret.err) <=>
           (tool.status # 0 /\ tool.out \in MarkedOutputs)
      /\ (tool.status # 0 /\ tool.out \notin MarkedOutputs) =>
           /\ ~ret.ok
           /\ ret.err
           /\ ret.msg = "ipset: can't test " \o args[2] \o " " \o args[3]
                        \o ": " \o tool.out
      /\ ~(ret.ok /\ ret.err)

\* the not-in-set answer
C9_WitnessNot ==
    /\ Done
    /\ ret.op = "Test"
    /\ tool = [status |-> 1, out |-> "1.1.1.2 is NOT in set foo."]
    /\ ret = [op |-> "Test", ok |-> FALSE, err |-> FALSE, msg |-> ""]

\* a failure whose text has no marker
C9_WitnessError ==
    /\ Done
    /\ ret.op = "Test"
    /\ args = <<_test, "foo", "1.1.1.1">>
    /\ tool = [status |-> 1, out |-> "fake error"]
    /\ ret = [op |-> "Test", ok |-> FALSE, err |-> TRUE,
              msg |-> "ipset: can't test foo 1.1.1.1: fake error"]

\* success, also with the marker in what the tool printed
C9_WitnessTrue ==
    /\ Done
    /\ ret.op = "Test"
    /\ tool.status = 0
    /\ tool.out \in MarkedOutputs
    /\ ret.ok
    /\ ~ret.err

(***************************************************************************)
(* C10: a failed cmd.exec returns "ipset: can't <action> <name>: <output>" *)
(* exactly when the action is list, save, destroy or flush and             *)
(* "ipset: can't <action> <name> <entry>: <output>" for every other        *)
(* action, with the tool's output verbatim; a successful one returns nil.  *)
(***************************************************************************)
C10_ExecError ==
    (Done /\ ret.op = "exec") =>
      /\ ret.err <=> tool.status # 0
      /\ (ret.err /\ c.action \in {_list, _save, _destroy, _flush}) =>
           ret.msg = "ipset: can't " \o c.action \o " " \o c.name \o ": "
                     \o tool.out
      /\ (ret.err /\ c.action \notin {_list, _save, _destroy, _flush}) =>
           ret.msg = "ipset: can't " \o c.action \o " " \o c.name \o " "
                     \o c.entry \o ": " \o tool.out
      /\ ~ret.err => ret.msg = ""

\* a failed flush: no entry in the message
C10_WitnessTwo ==
    /\ Done
    /\ ret.op = "exec"
    /\ c.action = _flush
    /\ c.entry = "1.1.1.1"
    /\ ret.err
    /\ ret.msg = "ipset: can't flush foo: fake error"

\* a failed add: the entry in the message
C10_WitnessThree ==
    /\ Done
    /\ ret.op = "exec"
    /\ c.action = _add
    /\ ret.err
    /\ ret.msg = "ipset: can't add foo 1.1.1.1: fake error"

\* a successful list
C10_WitnessOk ==
    /\ Done
    /\ ret.op = "exec"
    /\ c.action = _list
    /\ tool.status = 0
    /\ ~ret.err

(***************************************************************************)
(* Flushing and destroying by name (SpecNamed).                            *)
(***************************************************************************)
\* the last run of the tool the current call started
LastRun == invocations[Len(invocations)]

\* a flush or destroy of a named set has failed
NamedFailed ==
    /\ pc = "done"
    /\ ret.op \in {"Flush", "Destroy"}
    /\ ret.err
    /\ Len(LastRun.args) = 2

C11_WitnessMulti ==
    /\ NamedFailed
    /\ Len(invocations) = 2
    /\ ret.msg = "ipset: can't destroy set b: fake error"

(***************************************************************************)
(* Reading a listing for the properties of parseInfo: the lines are found  *)
(* from the positions of the line feeds, and a number is recognised by     *)
(* its decimal spelling.                                                   *)
(***************************************************************************)
LineFeeds(T) == {i \in 1..Len(T) : SubSeq(T, i, i) = LF}

LineStarts(T) == {a \in 1..Len(T) : a = 1 \/ (a - 1) \in LineFeeds(T)}

LineFrom(T, a) ==
    LET E == {i \in LineFeeds(T) : i >= a} \cup {Len(T) + 1}
    IN  SubSeq(T, a, (CHOOSE e \in E : \A x \in E : e <= x) - 1)

TextLines(T) ==
    LET S == LineStarts(T)
    IN  [k \in 1..Cardinality(S) |->
            LineFrom(T, CHOOSE a \in S : Cardinality({x \in S : x < a}) = k - 1)]

\* the line of the Members marker, or one past the last line
MarkerAt(L) ==
    LET K == {k \in 1..Len(L) : L[k] = "Members:"} \cup {Len(L) + 1}
    IN  CHOOSE k \in K : \A x \in K : k <= x

\* the header lines that start with a label
Labelled(L, label) == {k \in 1..(MarkerAt(L) - 1) : HasPrefix(L[k], label)}

LastOf(K) == CHOOSE k \in K : \A x \in K : k >= x

NumberValues == {0, 1, 2, 4, 12, 120, 168}

\* the last space-delimited token of the line is the number n
EndsWithNumber(line, n) ==
    LET ns == " " \o ToString(n)
    IN  /\ Len(line) >= Len(ns)
        /\ SubSeq(line, Len(line) - Len(ns) + 1, Len(line)) = ns

NumericLabels == {"Revision:", "Size in memory:", "References:"}

\* a numeric field: 0 without a labelled line, else the number of the last one
NumField(L, label, val) ==
    IF Labelled(L, label) = {} THEN val = 0
    ELSE \A n \in NumberValues :
            EndsWithNumber(L[LastOf(Labelled(L, label))], n) => val = n

ParsedAlone == pc = "done" /\ ret.op = "parseInfo" /\ info.kind = "info"

(***************************************************************************)
(* C12: parseInfo sets Revision, SizeInMemory and References to the number *)
(* in the last space-delimited token of the line with that label, Header   *)
(* to the text after "Header: ", and Entries to the lines after the        *)
(* Members marker in their order; a field without a labelled line keeps    *)
(* its zero value.                                                         *)
(***************************************************************************)
C12_ParsedFields ==
    ParsedAlone =>
        LET L == TextLines(tool.out)
            H == Labelled(L, "Header: ")
        IN  /\ NumField(L, "Revision:", info.v.Revision)
            /\ NumField(L, "Size in memory:", info.v.SizeInMemory)
            /\ NumField(L, "References:", info.v.References)
            /\ IF H = {} THEN info.v.Header = ""
               ELSE "Header: " \o info.v.Header = L[LastOf(H)]
            /\ info.v.Entries = SubSeq(L, MarkerAt(L) + 1, Len(L))

C12_Witness ==
    /\ ParsedAlone
    /\ tool.out = fullListing
    /\ info.v = [NoInfo EXCEPT !.Revision = 12, !.Header = "family inet6",
                               !.SizeInMemory = 120, !.References = 2,
                               !.Entries = <<"2.2.2.2", "1.1.1.1">>]

C12_WitnessAbsent ==
    /\ ParsedAlone
    /\ tool.out = "Revision: 4\n"
    /\ info.v = [NoInfo EXCEPT !.Revision = 4]

\* a numeric header line whose value is missing or is not a number
Malformed(line) ==
    \E label \in NumericLabels :
        /\ HasPrefix(line, label)
        /\ \A n \in NumberValues : line # label \o " " \o ToString(n)

(***************************************************************************)
(* C13: parseInfo never returns an Info for a listing with a numeric       *)
(* header line (Revision, Size in memory, References) whose value is       *)
(* missing or not a number, such as "Revision:4"; it returns an error.     *)
(***************************************************************************)
C13_HardFailure ==
    ParsedAlone =>
        LET L == TextLines(tool.out)
        IN  \A k \in 1..(MarkerAt(L) - 1) : ~Malformed(L[k])

(***************************************************************************)
(* C14: the Info of a successful List carries the name and the set type of *)
(* the handle, whatever Name: and Type: lines the output has; when the     *)
(* tool fails or parseInfo returns an error, List returns no Info and an   *)
(* error.                                                                  *)
(***************************************************************************)
C14_ListResult ==
    (pc = "done" /\ ret.op = "List") =>
        /\ ret.ok # ret.err
        /\ ret.ok =>
              /\ info.kind = "info"
              /\ info.v.Name = set.name
              /\ info.v.SetType = set.setType
              /\ tool.status = 0
        /\ (tool.status # 0 \/ parseInfo(tool.out).kind = "error") =>
              /\ ret.err
              /\ info = NoResult

C14_Witness ==
    /\ pc = "done"
    /\ ret.op = "List"
    /\ ret.ok
    /\ tool.out = fullListing
    /\ set = Handle("foo", HashIp)
    /\ info.v.Name = "foo"
    /\ info.v.Revision = 12

C14_WitnessToolFailed ==
    /\ pc = "done"
    /\ ret = Error("List", "ipset: can't list foo: fake error")
    /\ info = NoResult

C14_WitnessParseFailed ==
    /\ pc = "done"
    /\ ret.op = "List"
    /\ ret.err
    /\ tool.status = 0
    /\ info = NoResult

(***************************************************************************)
(* Restore (SpecRestore).                                                  *)
(***************************************************************************)
RestoreDone == pc = "done" /\ ret.op = "Restore"

\* what the calls of s.restore were handed, one after the other
RECURSIVE Handed(_)
Handed(runs) ==
    IF runs = <<>> THEN "" ELSE Head(runs).stdin \o Handed(Tail(runs))

\* the input is made of lines that all end with a line feed
Terminated(data) ==
    data = "" \/ SubSeq(data, Len(data), Len(data)) = LF

AllRunsOk == \A i \in 1..Len(invocations) : invocations[i].outcome = "ok"

(***************************************************************************)
(* C15: for an input of newline-terminated lines and any maximum chunk     *)
(* size, when no invocation fails, the inputs of the restore invocations   *)
(* in the order they were issued make up the input byte for byte, and      *)
(* every chunk ends at the end of a line.                                  *)
(***************************************************************************)
C15_ChunksMakeInput ==
    (RestoreDone /\ ret.ok /\ AllRunsOk /\ Terminated(reader.data)) =>
        /\ Handed(invocations) = reader.data
        /\ \A i \in 1..Len(invocations) : Terminated(invocations[i].stdin)

C15_Witness ==
    /\ RestoreDone
    /\ ret.ok
    /\ AllRunsOk
    /\ reader.data = "1.1.1.1\n2.2.2.2\n"
    /\ maxRestoreSize = 10
    /\ Len(invocations) = 2

C15_WitnessThree ==
    /\ RestoreDone
    /\ ret.ok
    /\ AllRunsOk
    /\ reader.data = "a\nbb\ncccc\n"
    /\ Len(invocations) = 3
    /\ invocations[2].stdin = "bb\n"

(***************************************************************************)
(* C16: every chunk Restore hands to a restore invocation is at most       *)
(* maxRestoreSize bytes long, also for an input with a line longer than    *)
(* maxRestoreSize.                                                         *)
(***************************************************************************)
C16_ChunkBound ==
    \A i \in 1..Len(invocations) :
        invocations[i].args[1] = _restore =>
            Len(invocations[i].stdin) <= maxRestoreSize

\* the outcomes with which s.restore returns an error
FailedOutcomes == {"exit", "stdinpipe", "writeclose", "close"}

(***************************************************************************)
(* C17: when the invocation for a chunk fails, no invocation is issued for *)
(* a later chunk, the chunks handed over before stay as they are (nothing  *)
(* but restore is ever invoked), and Restore returns the one error         *)
(* "ipset: can't restore to <name>(<type>): <output>" with the name and    *)
(* type of the handle; the invocations follow the input in its order and   *)
(* only the last one can be running.                                       *)
(***************************************************************************)
C17_FailureStops ==
    (Len(invocations) > 0 /\ invocations[1].args[1] = _restore) =>
        LET n == Len(invocations)
        IN  /\ \A i \in 1..(n - 1) : invocations[i].outcome \in {"ok", "write"}
            /\ \A i \in 1..n : invocations[i].args[1] = _restore
            /\ Handed(invocations) =
                   SubSeq(reader.data, 1, Len(Handed(invocations)))
            /\ invocations[n].outcome \in FailedOutcomes =>
                  /\ RestoreDone
                  /\ ret.err
                  /\ ret.msg =
                        "ipset: can't restore to " \o set.name \o "(" \o
                        set.setType \o "): " \o
                        (IF invocations[n].outcome = "exit"
                         THEN invocations[n].out
                         ELSE IF invocations[n].outcome = "stdinpipe"
                         THEN "pipe failed" ELSE "close failed")

C17_Witness ==
    /\ RestoreDone
    /\ Len(invocations) = 2
    /\ invocations[1].outcome = "ok"
    /\ invocations[1].stdin = "a\n"
    /\ invocations[2].outcome = "exit"
    /\ Unread(reader) # ""
    /\ ret = Error("Restore", "ipset: can't restore to foo(hash:ip): fake error")

C17_WitnessFirst ==
    /\ RestoreDone
    /\ Len(invocations) = 1
    /\ invocations[1].outcome = "exit"
    /\ Len(reader.data) > Len(invocations[1].stdin) + 4
    /\ ret.err

(***************************************************************************)
(* C18: after any sequence of compile calls with any options, a modifier   *)
(* set acquired from the pool has each of its 22 fields at the unset       *)
(* sentinel, so the tokens of a call are those its descriptor and option   *)
(* list give on a fresh modifier set, whatever earlier calls applied.      *)
(***************************************************************************)
C18_AcquiredUnset ==
    /\ \A o \in acquireOptions(optionsPool) :
          /\ Cardinality(DOMAIN o) = 22
          /\ \A k \in DOMAIN o : o[k] = NewOptions[k]
    /\ Done => args = buildArgs(c, NewOptions, opts)

\* a bare create compiled after a call that applied every option
C18_Witness ==
    /\ Done
    /\ first.set
    /\ first.opts = AllSet
    /\ optionsPool # {}
    /\ c.action = _create
    /\ opts = <<>>
    /\ args = <<_create, c.name, c.entry>>

(***************************************************************************)
(* C19: a descriptor released to the pool carries nothing from its use:    *)
(* action, name, entry, set type and output buffer are at their zero       *)
(* values, and a descriptor acquired by a call that supplies no entry (as  *)
(* List does) has an empty entry.                                          *)
(***************************************************************************)
C19_ReleasedClean ==
    /\ \A d \in cmdPool : d = NewCmd
    /\ (pc = "done" /\ ret.op = "List") => c.entry = ""

\* the instances a running call holds
HeldCmd(p) == IF calls[p].cmd = 0 THEN {} ELSE {calls[p].cmd}
HeldOpt(p) == IF calls[p].opt = 0 THEN {} ELSE {calls[p].opt}

(***************************************************************************)
(* C20: under any interleaving of calls, an instance of either pool is     *)
(* held by one call from acquire to release: never by two calls at once,   *)
(* never by a call while the pool holds it, and a call keeps a reference   *)
(* to a descriptor or modifier set only between acquiring and releasing    *)
(* it.                                                                     *)
(***************************************************************************)
C20_ExclusiveOwner ==
    /\ \A p, q \in Procs :
          p # q => /\ HeldCmd(p) \cap HeldCmd(q) = {}
                   /\ HeldOpt(p) \cap HeldOpt(q) = {}
    /\ \A p \in Procs :
          /\ HeldCmd(p) \cap pools.cmd = {}
          /\ HeldOpt(p) \cap pools.opt = {}
          /\ (calls[p].cmd # 0) = (calls[p].pc # "idle")
          /\ (calls[p].opt # 0) = (calls[p].pc = "appendArgs")

\* two calls compile at once, one of them on a descriptor and a modifier
\* set that went through the pools before
C20_Witness ==
    /\ calls[1].pc = "appendArgs"
    /\ calls[2].pc = "appendArgs"
    /\ calls[1].cmd # calls[2].cmd
    /\ calls[1].opt # calls[2].opt
    /\ pools.cmds = 2
    /\ pools.options = 2

C20_WitnessReuse ==
    /\ calls[1].pc = "putCmd"
    /\ calls[2].pc = "appendArgs"
    /\ calls[2].cmd = 1
    /\ calls[2].opt = 1
    /\ calls[1].cmd = 2
    /\ pools.opt = {2}

(***************************************************************************)
(* C23: every element of Info.Entries is a non-empty line that occurred    *)
(* after the Members marker, verbatim and in order of occurrence: Entries  *)
(* is the sequence of the non-empty lines after the marker, so a blank     *)
(* line after the marker is no entry and no line before it is one.         *)
(***************************************************************************)
C23_EntriesNonEmpty ==
    ParsedAlone =>
        LET L == TextLines(tool.out)
        IN  /\ \A k \in 1..Len(info.v.Entries) : info.v.Entries[k] # ""
            /\ info.v.Entries =
                  SelectSeq(SubSeq(L, MarkerAt(L) + 1, Len(L)),
                            LAMBDA e : e # "")

(***************************************************************************)
(* C24: when the reader ends normally and no chunk fails, the last         *)
(* invocation of a Restore is the one for the bytes still in its buffer;   *)
(* so a successful Restore has issued at least one invocation, also for    *)
(* an empty input, and at least two when the newline-terminated input is   *)
(* longer than the maximum chunk size.                                     *)
(***************************************************************************)
C24_FinalFlush ==
    (RestoreDone /\ ret.ok /\ AllRunsOk) =>
        /\ Len(invocations) >= 1
        /\ LastRun.stdin = buf
        /\ LastRun.args[1] = _restore
        /\ (Terminated(reader.data) /\ Len(reader.data) > maxRestoreSize) =>
               Len(invocations) >= 2

\* the empty input: one invocation with nothing on its standard input
C24_Witness ==
    /\ RestoreDone
    /\ ret.ok
    /\ AllRunsOk
    /\ reader.data = ""
    /\ invocations = <<Ended(Running("", opts), "ok", "")>>

\* two 8-byte lines and a maximum of 10 bytes
C24_WitnessTwo ==
    /\ RestoreDone
    /\ ret.ok
    /\ AllRunsOk
    /\ maxRestoreSize = 10
    /\ Len(invocations) = 2
    /\ invocations[1].stdin = "1.1.1.1\n"
    /\ invocations[2].stdin = "2.2.2.2\n"
    /\ buf = "2.2.2.2\n"

\* the tool's own answer for an entry that is not in the set
IsNotInSetAnswer(out) == Contains(out, " is NOT in set ")

(***************************************************************************)
(* C25: when the tool exits non-zero on a test and its output is not its   *)
(* own "is NOT in set" answer, Test returns a non-nil error and never      *)
(* (false, nil), also when the text of the failure echoes an entry or a    *)
(* set name with the letters NOT in it.                                    *)
(***************************************************************************)
C25_GenuineFailure ==
    (Done /\ ret.op = "Test" /\ tool.status # 0
          /\ ~IsNotInSetAnswer(tool.out)) =>
        /\ ret.err
        /\ ~ret.ok

(***************************************************************************)
(* C27: for every input, also one whose last line has no trailing line     *)
(* feed, when no invocation fails the inputs of the restore invocations    *)
(* make up the whole input: the bytes after the last line feed are part    *)
(* of the last chunk.                                                      *)
(***************************************************************************)
C27_WholeInput ==
    (RestoreDone /\ ret.ok /\ AllRunsOk) => Handed(invocations) = reader.data

(***************************************************************************)
(* C28: when the write of a chunk to the standard-input pipe fails, with   *)
(* or without a failure of the Close that follows, that invocation is the  *)
(* last one and Restore returns an error of the restore shape.             *)
(***************************************************************************)
C28_WriteFailureStops ==
    \A i \in 1..Len(invocations) :
        invocations[i].outcome \in {"write", "writeclose"} =>
            /\ i = Len(invocations)
            /\ RestoreDone
            /\ ret.err
            /\ HasPrefix(ret.msg, "ipset: can't restore to " \o set.name
                                  \o "(" \o set.setType \o "): ")

(***************************************************************************)
(* C29: parseInfo never crashes: for every text it returns an Info or an   *)
(* error, also for a text with a line before the Members marker that       *)
(* starts with H and is shorter than 8 characters.                         *)
(***************************************************************************)
C29_NeverCrashes ==
    /\ pc # "panic"
    /\ ret.op = "parseInfo" => info.kind \in {"info", "error"}

(***************************************************************************)
(* C30: where the compiled tokens have the timeout flag, the token after   *)
(* it is the duration in whole seconds and is at least 1, never "0"; a     *)
(* duration of zero or less emits no timeout flag.                         *)
(***************************************************************************)
C30_TimeoutAtLeastOne ==
    Done =>
        /\ \A i \in FlagAt(args, "timeout") :
              /\ i < Len(args)
              /\ args[i + 1] = ToString(LastVal(opts, "timeout") \div Second)
              /\ args[i + 1] # "0"
              /\ LastVal(opts, "timeout") >= Second
        /\ LastVal(opts, "timeout") <= 0 => ~Emitted(args, "timeout")

(***************************************************************************)
(* ListToFile, SaveToFile and Save (SpecSave).                             *)
(***************************************************************************)
ToFileDone == pc = "done" /\ ret.op = "doToFile"

\* a step that is a whole call of doToFile
ToFileStep == pc = "idle" /\ pc' = "done" /\ ret'.op = "doToFile"

(***************************************************************************)
(* C21: a call of ListToFile or SaveToFile runs the tool once, with list   *)
(* or save and the name of the set; when the tool exits with status zero   *)
(* and the file can be written its content is the output of that run, byte *)
(* for byte; when the tool fails the call returns                          *)
(* "ipset: can't <action> <name>: <output>" and every file is as it was    *)
(* before the call (none is created, none is written).                     *)
(***************************************************************************)
C21_ToFile ==
    [][ToFileStep =>
         /\ Len(invocations') = 1
         /\ invocations'[1].args[1] \in {_list, _save}
         /\ invocations'[1].args[1] = c'.action
         /\ invocations'[1].args[2] = set'.name
         /\ (tool'.status = 0 /\ ~ret'.err) =>
               /\ filename' \in FileNames
               /\ files'[filename'] = [exists |-> TRUE, content |-> tool'.out]
               /\ \A f \in FileNames \ {filename'} : files'[f] = files[f]
         /\ tool'.status # 0 =>
               /\ ret'.err
               /\ ret'.msg = "ipset: can't " \o c'.action \o " " \o set'.name
                             \o ": " \o tool'.out
               /\ files' = files]_vars

\* a save written over the file an earlier call left
C21_Witness ==
    /\ ToFileDone
    /\ c.action = _save
    /\ cmdPool = {[c EXCEPT !.out = ""]}
    /\ c.entry = "1.1.1.1"
    /\ ret.ok
    /\ tool.out = "add foo 2.2.2.2\n"
    /\ files["list.test"].content = "add foo 2.2.2.2\n"

\* the tool fails and the file of an earlier call is as it was
C21_WitnessFailed ==
    /\ ToFileDone
    /\ tool.status = 1
    /\ ret = Error("doToFile", "ipset: can't list foo: fake error")
    /\ filename = "list.test"
    /\ files["list.test"] = [exists |-> TRUE, content |-> "Members:\n"]

\* a call through the pooled descriptor that has run the tool
ExecDone ==
    pc = "done" /\ ret.op \in {"List", "Save", "do", "doToFile"}

(***************************************************************************)
(* C22: after a call has run the tool, the output on the descriptor is     *)
(* exactly what that run printed when it exited with status zero and the   *)
(* action is list or save, with nothing of an earlier run of the same      *)
(* pooled descriptor, and it is empty for every other action and after a   *)
(* failed run.                                                             *)
(***************************************************************************)
C22_RetainedOutput ==
    ExecDone =>
        c.out = IF tool.status = 0 /\ c.action \in {_list, _save}
                THEN tool.out ELSE ""

\* a save on the descriptor an earlier list with a longer output used
C22_Witness ==
    /\ ExecDone
    /\ ret.op = "Save"
    /\ ret.ok
    /\ backing.cap = 32
    /\ c.out = "add foo 1.1.1.1\n"
    /\ cmdPool = {putCmd(c)}

\* an add on a descriptor that was used for a list: nothing is retained
C22_WitnessAdd ==
    /\ ExecDone
    /\ c.action = _add
    /\ tool.status = 0
    /\ backing.cap > 0
    /\ c.out = ""

(***************************************************************************)
(* C26: the bytes a caller reads from the reader of a successful Save are  *)
(* the output that Save captured, whatever calls of List, Save, ListToFile *)
(* or SaveToFile ran between Save returning and the caller reading.        *)
(***************************************************************************)
C26_ReaderStable ==
    (pc = "done" /\ ret.op = "Read") => ret.msg = saved.out

====
